---------------------------- MODULE Spec2Model ----------------------------
(***************************************************************************)
(* Fixture resolution of the betslip parser: enrichGenericSelection (the   *)
(* SofaScore strategies A and B and the web fallback) of                   *)
(* src/unnamed/part_000, and the temporal / tournament validators of       *)
(* enrichViaOpenAI (src/unnamed/part_000) and enrichViaWeb /               *)
(* enrichViaOpenAI (src/server.js).                                        *)
(*                                                                         *)
(* Strings are TLA+ strings; a character is a string of length 1.          *)
(* Instants are integers: milliseconds since an epoch chosen close enough  *)
(* to "now" for every instant of the model to fit a 32-bit integer.        *)
(***************************************************************************)
EXTENDS Integers, Sequences, FiniteSets, TLC

NULL == "<null>"

(***************************************************************************)
(* Characters and strings (JavaScript String methods used by the code).    *)
(***************************************************************************)
Char(s, i) == SubSeq(s, i, i)

UpperChars == "ABCDEFGHIJKLMNOPQRSTUVWXYZ"
LowerChars == "abcdefghijklmnopqrstuvwxyz"
DigitChars == "0123456789"
\* The letters with a mark.  States are kept in 7-bit
\* characters, so each of them is written as a character that no text of the
\* model uses otherwise (like the marked letters, none is a \w character):
\*   ! U+00E1   # U+00E9   $ U+00ED   % U+00F3   * U+00FA   + U+00FC   , U+00F1
\*   : U+00C1   ; U+00C9   < U+00CD   = U+00D3   > U+00DA   ? U+00DC   @ U+00D1
\* Precomposed letters and the base letter NFD leaves once U+0300-U+036F is removed.
MarkedChars == "!#$%*+,:;<=>?@"
aAcute == "!"
eAcute == "#"
uAcute == "*"
BaseChars   == "aeiouunAEIOUUN"
\* The characters a normalised name can hold, in UTF-16 code unit order.
CodeOrder == " &()-/0123456789abcdefghijklmnopqrstuvwxyz"

PosIn(c, alphabet) ==
  CHOOSE i \in 1..Len(alphabet) : Char(alphabet, i) = c

CharsOf(alphabet) == {Char(alphabet, i) : i \in 1..Len(alphabet)}

\* String.prototype.toLowerCase, one character.
LowerMap ==
  [c \in CharsOf(UpperChars) \cup CharsOf(SubSeq(MarkedChars, 8, 14)) |->
     IF c \in CharsOf(UpperChars)
       THEN Char(LowerChars, PosIn(c, UpperChars))
       ELSE Char(MarkedChars, PosIn(c, MarkedChars) - 7)]

LowerChar(c) == IF c \in DOMAIN LowerMap THEN LowerMap[c] ELSE c

\* normalize("NFD") followed by the removal of the combining marks, one character.
BaseMap ==
  [c \in CharsOf(MarkedChars) |-> Char(BaseChars, PosIn(c, MarkedChars))]

StripMarkChar(c) == IF c \in DOMAIN BaseMap THEN BaseMap[c] ELSE c

\* \w of a JavaScript regular expression (no u flag): [A-Za-z0-9_].
WordChars ==
  CharsOf(UpperChars) \cup CharsOf(LowerChars) \cup CharsOf(DigitChars) \cup {"_"}

IsWordChar(c) == c \in WordChars

\* The rank of a character of a normalised name among the UTF-16 code units.
CodeRank == [c \in CharsOf(CodeOrder) |-> PosIn(c, CodeOrder)]

\* \s restricted to the white space the model's texts hold.
IsSpace(c) == c = " "

RECURSIVE toLowerCase(_)
toLowerCase(s) ==
  IF s = "" THEN "" ELSE LowerChar(Head(s)) \o toLowerCase(Tail(s))

RECURSIVE StripMarks(_)
StripMarks(s) ==
  IF s = "" THEN "" ELSE StripMarkChar(Head(s)) \o StripMarks(Tail(s))

RECURSIVE RemoveChar(_, _)
RemoveChar(s, c) ==
  IF s = "" THEN ""
  ELSE IF Head(s) = c THEN RemoveChar(Tail(s), c)
  ELSE Head(s) \o RemoveChar(Tail(s), c)

RECURSIVE DropSpaces(_)
DropSpaces(s) ==
  IF s # "" /\ IsSpace(Head(s)) THEN DropSpaces(Tail(s)) ELSE s

\* replace(/\s{2,}/g, " "): a run of two or more white spaces becomes one space.
RECURSIVE CollapseSpaces(_)
CollapseSpaces(s) ==
  IF s = "" THEN ""
  ELSE IF IsSpace(Head(s)) /\ Len(s) >= 2 /\ IsSpace(Char(s, 2))
         THEN " " \o CollapseSpaces(DropSpaces(s))
  ELSE Head(s) \o CollapseSpaces(Tail(s))

RECURSIVE TrimEnd(_)
TrimEnd(s) ==
  IF s # "" /\ IsSpace(Char(s, Len(s)))
    THEN TrimEnd(SubSeq(s, 1, Len(s) - 1))
    ELSE s

\* String.prototype.trim
trim(s) == TrimEnd(DropSpaces(s))

\* String.prototype.includes
includes(s, sub) ==
  \E i \in 1..(Len(s) - Len(sub) + 1) : SubSeq(s, i, i + Len(sub) - 1) = sub

\* String.prototype.indexOf, 1-based; 0 when sub does not occur.
indexOf(s, sub) ==
  IF includes(s, sub)
    THEN CHOOSE i \in 1..(Len(s) - Len(sub) + 1) :
           /\ SubSeq(s, i, i + Len(sub) - 1) = sub
           /\ \A j \in 1..(i - 1) : SubSeq(s, j, j + Len(sub) - 1) # sub
    ELSE 0

\* String.prototype.replace with a string pattern: the first occurrence only.
replace(s, pat, by) ==
  LET i == indexOf(s, pat)
  IN  IF i = 0 THEN s
      ELSE SubSeq(s, 1, i - 1) \o by \o SubSeq(s, i + Len(pat), Len(s))

\* The < of two strings: lexicographic on UTF-16 code units.
RECURSIVE StrLess(_, _)
StrLess(a, b) ==
  IF b = "" THEN FALSE
  ELSE IF a = "" THEN TRUE
  ELSE IF Head(a) = Head(b) THEN StrLess(Tail(a), Tail(b))
  ELSE CodeRank[Head(a)] < CodeRank[Head(b)]

\* Array.from(new Set(xs)): first occurrences, in insertion order.
RECURSIVE Dedup(_)
Dedup(xs) ==
  IF xs = <<>> THEN <<>>
  ELSE LET front == Dedup(SubSeq(xs, 1, Len(xs) - 1))
           last  == xs[Len(xs)]
       IN  IF \E i \in 1..Len(front) : front[i] = last
             THEN front
             ELSE Append(front, last)

\* Array.prototype.slice(0, n)
Take(xs, n) == SubSeq(xs, 1, IF Len(xs) < n THEN Len(xs) ELSE n)

\* Array.prototype.filter(Boolean) on an array of strings.
RECURSIVE NonEmpty(_)
NonEmpty(xs) ==
  IF xs = <<>> THEN <<>>
  ELSE IF Head(xs) = "" THEN NonEmpty(Tail(xs))
  ELSE <<Head(xs)>> \o NonEmpty(Tail(xs))

RECURSIVE Flatten(_)
Flatten(xss) ==
  IF xss = <<>> THEN <<>> ELSE Head(xss) \o Flatten(Tail(xss))

\* Array.prototype.join(" ")
RECURSIVE JoinSpace(_)
JoinSpace(xs) ==
  IF xs = <<>> THEN ""
  ELSE IF Len(xs) = 1 THEN xs[1]
  ELSE xs[1] \o " " \o JoinSpace(Tail(xs))

\* split(/\s+/): the pieces between runs of white space (empty pieces included).
RECURSIVE SplitSpaces(_, _)
SplitSpaces(s, cur) ==
  IF s = "" THEN <<cur>>
  ELSE IF IsSpace(Head(s)) THEN <<cur>> \o SplitSpaces(DropSpaces(s), "")
  ELSE SplitSpaces(Tail(s), cur \o Head(s))

\* split(/vs/i): the pieces between the occurrences of "vs", in any case.
RECURSIVE SplitVs(_, _)
SplitVs(s, cur) ==
  IF s = "" THEN <<cur>>
  ELSE IF Len(s) >= 2 /\ toLowerCase(SubSeq(s, 1, 2)) = "vs"
         THEN <<cur>> \o SplitVs(SubSeq(s, 3, Len(s)), "")
  ELSE SplitVs(Tail(s), cur \o Head(s))

RECURSIVE MapTrim(_)
MapTrim(xs) ==
  IF xs = <<>> THEN <<>> ELSE <<trim(Head(xs))>> \o MapTrim(Tail(xs))

(***************************************************************************)
(* Name normalisation.                                                     *)
(***************************************************************************)
normalizePlain(s) ==
  trim(CollapseSpaces(RemoveChar(toLowerCase(StripMarks(s)), ".")))

\* raw.split(/vs/i).map(s => s.trim()).filter(Boolean)
splitSides(raw) == NonEmpty(MapTrim(SplitVs(raw, "")))

RECURSIVE LongTokens(_)
LongTokens(toks) ==
  IF toks = <<>> THEN <<>>
  ELSE IF Len(Head(toks)) > 1 THEN <<Head(toks)>> \o LongTokens(Tail(toks))
  ELSE LongTokens(Tail(toks))

expandName(side) ==
  LET plain      == normalizePlain(side)
      tokens     == NonEmpty(SplitSpaces(plain, ""))
      noInitials == JoinSpace(LongTokens(tokens))
  IN  IF Len(tokens) >= 2
        THEN Dedup((IF noInitials # "" THEN <<noInitials>> ELSE <<>>)
                   \o <<tokens[Len(tokens)]>>)
        ELSE <<plain>>

\* expandName of src/server.js: the name without its initials is added
\* even when it is empty
expandNameOfServer(side) ==
  LET plain  == normalizePlain(side)
      tokens == NonEmpty(SplitSpaces(plain, ""))
  IN  IF Len(tokens) >= 2
        THEN Dedup(<<JoinSpace(LongTokens(tokens)), tokens[Len(tokens)]>>)
        ELSE <<plain>>

addDiacriticAlternatives(v) ==
  Dedup(<<v>>
        \o (IF includes(v, "cerundolo")
              THEN <<replace(v, "cerundolo", "cer" \o uAcute \o "ndolo")>> ELSE <<>>)
        \o (IF includes(v, "alcaraz")
              THEN <<replace(v, "alcaraz", aAcute \o "lcaraz")>> ELSE <<>>))

RECURSIVE FlatMapAlternatives(_)
FlatMapAlternatives(vs) ==
  IF vs = <<>> THEN <<>>
  ELSE addDiacriticAlternatives(Head(vs)) \o FlatMapAlternatives(Tail(vs))

\* leftVars / rightVars of enrichGenericSelection
sideVars(side) == FlatMapAlternatives(expandName(side))

\* for (const a of leftVars) for (const b of rightVars) push(`${a} ${b}`)
RECURSIVE combineQueries(_, _)
combineQueries(ls, rs) ==
  IF ls = <<>> THEN <<>>
  ELSE [j \in 1..Len(rs) |-> Head(ls) \o " " \o rs[j]] \o combineQueries(Tail(ls), rs)

(***************************************************************************)
(* Values.  A startIso is null, an ISO-8601 instant or some other text; a  *)
(* tournament is a string, NULL standing for null.                         *)
(***************************************************************************)
NoIso      == [kind |-> "null", ms |-> 0, text |-> ""]
Iso(ms)    == [kind |-> "iso",  ms |-> ms, text |-> ""]
IsoText(t) == [kind |-> "text", ms |-> 0, text |-> t]

\* JavaScript truthiness of a startIso and of a nullable string.
TruthyIso(v) == v.kind = "iso" \/ (v.kind = "text" /\ v.text # "")
Truthy(s)    == s # NULL /\ s # ""

\* Date.parse(v) is NaN
ParsesToNaN(v) == v.kind # "iso"
\* Date.parse(v), for a v that parses
DateParse(v) == v.ms
\* new Date(startTimestamp * 1000).toISOString(), startTimestamp in seconds
\* toISOString of new Date(seconds), the factor 1000 forgotten
toISOStringOfSeconds(seconds) == Iso(seconds)

toISOString(seconds) == Iso(seconds * 1000)

GraceMs   == 10 * 60 * 1000
HorizonMs == 3 * 24 * 60 * 60 * 1000
CACHE_MS  == 5 * 60 * 1000

(***************************************************************************)
(* The validators applied to an answer of the model (enrichViaOpenAI of    *)
(* src/unnamed/part_000; enrichViaWeb and enrichViaOpenAI of src/server.js)*)
(***************************************************************************)
\* /.../i.test(name): some alternative occurs in name, whatever the case.
TestAny(name, alternatives) ==
  \E k \in 1..Len(alternatives) : includes(toLowerCase(name), alternatives[k])

\* /\b(...)\b/i.test(name): some alternative occurs between two word boundaries.
\* Every alternative starts and ends with a word character.
TestAnyWord(name, alternatives) ==
  LET low == toLowerCase(name)
  IN  \E k \in 1..Len(alternatives) :
        \E i \in 1..(Len(low) - Len(alternatives[k]) + 1) :
          LET j == i + Len(alternatives[k]) - 1
          IN  /\ SubSeq(low, i, j) = alternatives[k]
              /\ (i = 1 \/ ~IsWordChar(Char(low, i - 1)))
              /\ (j = Len(low) \/ ~IsWordChar(Char(low, j + 1)))

GenericPattern ==
  <<"atp tour", "wta tour", "tournament", "league", "liga">>

SpecificPatternOpenAI ==
  <<"atp", "wta", "itf", "challenger", "grand slam", "masters", "1000", "500",
    "250", "copa", "swiss indoors", "basel", "madrid", "roma", "paris",
    "acapulco", "miami", "shanghai", "doha", "dubai", "barcelona",
    "monte-carlo", "euroleague", "laliga", "premier", "champions",
    "europa league">>

SpecificPatternWeb ==
  <<"atp", "wta", "itf", "challenger", "grand slam", "masters", "1000", "500",
    "250", "copa", "serie a", "laliga", "premier", "champions",
    "europa league", "basel", "madrid", "roma", "paris", "miami", "shanghai">>

invalidGenericTournament(name) ==
  /\ Truthy(name)
  /\ TestAny(name, GenericPattern)
  /\ ~TestAnyWord(name, SpecificPatternOpenAI)

looksGeneric(name) ==
  /\ Truthy(name)
  /\ TestAny(name, GenericPattern)
  /\ ~TestAnyWord(name, SpecificPatternWeb)

\* OutsideWindow with the two bounds excluded from the window.
OutsideWindowStrict(iso, nowMs) ==
  \/ ParsesToNaN(iso)
  \/ DateParse(iso) <= nowMs - GraceMs
  \/ DateParse(iso) >= nowMs + HorizonMs

\* isNaN(t) || t < now - 10 * 60 * 1000 || t > max
OutsideWindow(iso, nowMs) ==
  \/ ParsesToNaN(iso)
  \/ DateParse(iso) < nowMs - GraceMs
  \/ DateParse(iso) > nowMs + HorizonMs

\* fixJson of enrichViaOpenAI (src/unnamed/part_000)
fixJson(j, nowMs) ==
  [tournament |-> IF invalidGenericTournament(j.tournament) THEN NULL
                  ELSE j.tournament,
   startIso   |-> IF TruthyIso(j.startIso) /\ OutsideWindow(j.startIso, nowMs)
                    THEN NoIso ELSE j.startIso]

\* the server-side validation of enrichViaWeb (src/server.js)
webValidate(data, nowMs) ==
  [tournament |-> IF ~Truthy(data.tournament) \/ looksGeneric(data.tournament)
                    THEN NULL ELSE data.tournament,
   startIso   |-> IF TruthyIso(data.startIso) /\ OutsideWindow(data.startIso, nowMs)
                    THEN NoIso ELSE data.startIso]

\* the window check of enrichViaOpenAI (src/server.js): no tournament check
openAIValidate(data, nowMs) ==
  [tournament |-> data.tournament,
   startIso   |-> IF TruthyIso(data.startIso) /\ OutsideWindow(data.startIso, nowMs)
                    THEN NoIso ELSE data.startIso]

(***************************************************************************)
(* The upstream services.  The search index and the fixture lists are      *)
(* fixed for a behaviour (the variable world); an individual call may      *)
(* still fail (timeout, non-2xx answer, malformed JSON, network error).    *)
(* The web fallback answers what it likes, call by call.                   *)
(***************************************************************************)
\* "Francisco Cerundolo", with its acute accent
FranciscoCerundolo == "Francisco Cer" \o uAcute \o "ndolo"

\* Entities of the search index, in the index's relevance order.
Entities ==
  << [id |-> 30, name |-> "Jannik Sinner"],
     [id |-> 10, name |-> FranciscoCerundolo],
     [id |-> 20, name |-> "Carlos Alcaraz"] >>

EntityIds == {Entities[i].id : i \in 1..Len(Entities)}

\* "now" of the main behaviours, in milliseconds and in seconds.
NowMs  == 1000 * 1000 * 1000
NowSec == NowMs \div 1000

Event(home, away, tournament, season, ts) ==
  [home |-> home, away |-> away, tournament |-> tournament,
   season |-> season, ts |-> ts]

NoEvent == Event("", "", "", "", 0)

\* The singles fixture, one hour from now.
EvSingles ==
  Event("Jannik Sinner", FranciscoCerundolo, "Paris Masters", "2025",
        NowSec + 3600)
\* The return fixture, ten days from now, known by its season only.
EvReturn ==
  Event(FranciscoCerundolo, "Jannik Sinner", "", "Davis Cup Finals 2025",
        NowSec + 10 * 24 * 3600)
\* A doubles fixture: both partners are named in the home field.
EvDoubles ==
  Event("Sinner J / Alcaraz C", "Ram R / Salisbury J", "Paris Masters Doubles",
        "2025", NowSec + 7200)
\* A fixture that started two hours ago.
EvStarted ==
  Event("Carlos Alcaraz", FranciscoCerundolo, "League", "", NowSec - 7200)

\* The fixture lists the fixture service may hold for each entity.
EventLists ==
  [e \in EntityIds |->
     CASE e = 30 -> {<<EvSingles>>, <<EvSingles, EvReturn>>, <<EvDoubles>>}
       [] e = 10 -> {<<>>, <<EvSingles>>, <<EvReturn, EvSingles>>, <<EvStarted>>}
       [] e = 20 -> {<<EvDoubles>>, <<EvStarted>>}]

\* How the index answers a query: the entities naming all its words, those
\* naming one of its words, every entity (a fuzzy index), or none.
SearchModes == {"all", "any", "fuzzy", "none"}
Sections    == {"tennis", "football"}

\* The answers of GET /enrich-online: ok = false is a non-2xx answer.
WebAnswer(ok, tournament, startIso, sourceUrl) ==
  [ok |-> ok, tournament |-> tournament, startIso |-> startIso,
   sourceUrl |-> sourceUrl]

WebAnswers ==
  { WebAnswer(FALSE, NULL, NoIso, ""),
    WebAnswer(TRUE, "ATP Tour", Iso(NowMs + 3600 * 1000), "some-random-blog.com"),
    WebAnswer(TRUE, "Paris Masters", NoIso, "atptour.com"),
    WebAnswer(TRUE, NULL, Iso(NowMs + 3600 * 1000), "atptour.com") }

\* pickDomains(sport) (src/server.js)
pickDomains(sport) ==
  IF sport = NULL \/ sport = ""
    THEN <<"sofascore.com", "flashscore.com", "espn.com", "as.com", "marca.com">>
  ELSE IF includes(toLowerCase(sport), "tennis")
    THEN <<"sofascore.com", "flashscore.com", "atptour.com", "wtatennis.com",
           "tennis.com">>
  ELSE <<"sofascore.com", "flashscore.com", "espn.com", "livescore.com",
         "laliga.com", "legaseriea.it">>

Worlds ==
  [mode : SearchModes, section : Sections,
   events : {f \in [EntityIds -> UNION {EventLists[e] : e \in EntityIds}] :
               \A e \in EntityIds : f[e] \in EventLists[e]}]

\* More entities, after the others in relevance order: a crowded index lists
\* them all, whatever the query.
Namesakes ==
  << [id |-> 40, name |-> "Jannik Sinner Jr"],
     [id |-> 50, name |-> "Carlos Alcaraz Sr"] >>

Index(w) == IF w.mode = "crowded" THEN Entities \o Namesakes ELSE Entities

\* Whether the index lists an entity for a query.
Listed(mode, q, name) ==
  LET toks == NonEmpty(SplitSpaces(normalizePlain(q), ""))
      n    == normalizePlain(name)
  IN  CASE mode = "all"  -> toks # <<>> /\ \A t \in 1..Len(toks) : includes(n, toks[t])
        [] mode = "any"  -> \E t \in 1..Len(toks) : includes(n, toks[t])
        [] mode = "fuzzy" -> toks # <<>>
        [] mode = "crowded" -> toks # <<>>
        [] mode = "none" -> FALSE

\* GET /search/all?q=...: the sections of the answer, each with players and teams.
searchAll(w, q) ==
  LET hits == SelectSeq(Index(w), LAMBDA e : Listed(w.mode, q, e.name))
  IN  IF w.section = "tennis"
        THEN << [name |-> "tennis", players |-> hits, teams |-> <<>>] >>
        ELSE << [name |-> "football", players |-> <<>>, teams |-> hits] >>

\* GET /player/<id>/events/next/0: data.events
nextEventsForPlayer(w, id) == w.events[id]

Cand(type, e) == [type |-> type, id |-> e.id, name |-> e.name]

TennisCap  == 5
SectionCap == 3
GenericCap == 5

RECURSIVE GenericCands(_)
GenericCands(sections) ==
  IF sections = <<>> THEN <<>>
  ELSE LET sec == Head(sections)
           ps  == Take(sec.players, SectionCap)
           ts  == Take(sec.teams, SectionCap)
       IN  [i \in 1..Len(ps) |-> Cand("player", ps[i])]
           \o [i \in 1..Len(ts) |-> Cand("team", ts[i])]
           \o GenericCands(Tail(sections))

topTennisCandidates(res) ==
  LET tennis     == SelectSeq(res, LAMBDA sec : sec.name = "tennis")
      players    == IF tennis = <<>> THEN <<>> ELSE tennis[1].players
      fromTennis == Take([i \in 1..Len(players) |-> Cand("player", players[i])],
                         TennisCap)
  IN  IF fromTennis # <<>> THEN fromTennis
      ELSE Take(GenericCands(res), GenericCap)

(***************************************************************************)
(* The fixture matcher.                                                    *)
(***************************************************************************)
\* leftVars.some(v => home.includes(normalizePlain(v)) || away.includes(normalizePlain(v)))
hasSide(ev, vars) ==
  LET home == normalizePlain(ev.home)
      away == normalizePlain(ev.away)
  IN  \E i \in 1..Len(vars) :
        \/ includes(home, normalizePlain(vars[i]))
        \/ includes(away, normalizePlain(vars[i]))

bothSides(ev, leftVars, rightVars) ==
  hasSide(ev, leftVars) /\ hasSide(ev, rightVars)

Found(tournament, startIso) ==
  [found |-> TRUE, tournament |-> tournament, startIso |-> startIso]

NotFound == [found |-> FALSE, tournament |-> NULL, startIso |-> NoIso]

\* ev?.tournament?.name || ev?.season?.name || "", and the start time of ev
resultOfA(ev) ==
  Found(IF ev.tournament # "" THEN ev.tournament ELSE ev.season,
        IF ev.ts # 0 THEN toISOString(ev.ts) ELSE NoIso)

\* Object.values(eventsById): integer keys come in ascending order.
RECURSIVE ValuesById(_)
ValuesById(byId) ==
  IF DOMAIN byId = {} THEN <<>>
  ELSE LET m == CHOOSE i \in DOMAIN byId : \A j \in DOMAIN byId : i <= j
       IN  byId[m] \o ValuesById([j \in DOMAIN byId \ {m} |-> byId[j]])

\* The first event of evs, in order, that names both sides; 0 when none does.
firstBoth(evs, leftVars, rightVars) ==
  IF \E i \in 1..Len(evs) : bothSides(evs[i], leftVars, rightVars)
    THEN CHOOSE i \in 1..Len(evs) :
           /\ bothSides(evs[i], leftVars, rightVars)
           /\ \A j \in 1..(i - 1) : ~bothSides(evs[j], leftVars, rightVars)
    ELSE 0

sig(ev) ==
  LET h == normalizePlain(ev.home)
      a == normalizePlain(ev.away)
  IN  IF StrLess(h, a) THEN h \o " vs " \o a ELSE a \o " vs " \o h

\* rightIndex.has(key)
inIndex(rightEvents, key) ==
  \E j \in 1..Len(rightEvents) : sig(rightEvents[j]) = key

\* rightIndex.get(key): new Map(pairs) keeps the last pair of a key.
twinOf(rightEvents, key) ==
  rightEvents[CHOOSE j \in 1..Len(rightEvents) :
                /\ sig(rightEvents[j]) = key
                /\ \A l \in (j + 1)..Len(rightEvents) : sig(rightEvents[l]) # key]

\* The first event of leftEvents whose signature is in the index; 0 when none is.
firstCollision(leftEvents, rightEvents) ==
  IF \E i \in 1..Len(leftEvents) : inIndex(rightEvents, sig(leftEvents[i]))
    THEN CHOOSE i \in 1..Len(leftEvents) :
           /\ inIndex(rightEvents, sig(leftEvents[i]))
           /\ \A j \in 1..(i - 1) : ~inIndex(rightEvents, sig(leftEvents[j]))
    ELSE 0

resultOfB(ev, twin) ==
  LET startUnix  == IF ev.ts # 0 THEN ev.ts ELSE twin.ts
      tournament == IF ev.tournament # "" THEN ev.tournament
                    ELSE IF twin.tournament # "" THEN twin.tournament
                    ELSE IF ev.season # "" THEN ev.season
                    ELSE twin.season
  IN  Found(tournament, IF startUnix # 0 THEN toISOString(startUnix) ELSE NoIso)

\* { tournament: data.found.tournament, startIso: data.found.startIso || null }
resultOfWeb(data) ==
  Found(data.tournament, IF TruthyIso(data.startIso) THEN data.startIso ELSE NoIso)

(***************************************************************************)
(* State.                                                                  *)
(***************************************************************************)
\* Bounds of the model.
NumCalls    == 2
MaxFailures == 1

ComboCap  == 6
CandCap   == 3
BCandCap  == 3

Procs == 1..NumCalls

\* The match texts handed to enrichGenericSelection.
SinnerCerundolo == "J. Sinner vs F. Cer" \o uAcute \o "ndolo"
PhantomMatch    == "Equipo Fantasma FC vs Atl" \o eAcute \o "tico Inexistente"

Inputs ==
  { SinnerCerundolo,
    "F. Cer" \o uAcute \o "ndolo vs J. Sinner",
    "J. Sinner vs C. Alcaraz",
    PhantomMatch,
    "Sinner",
    "Sinner vs ",
    "" }

\* Time elapsed between the end of an invocation and the start of the next.
Delays == {1000, CACHE_MS + 1000}

VARIABLES
  now,         \* Date.now(), in milliseconds
  world,       \* the search index and the fixture lists
  matchCache,  \* const matchCache = new Map()
  call,        \* call[p]: the locals of the p-th invocation of enrichGenericSelection
  vWhich,      \* the validator applied last ("none" before any)
  vNow,        \* its Date.now()
  vIn,         \* the answer it was given
  vOut,        \* the answer it returned
  slip         \* the locals of the /parse-rows request being served

vars == <<now, world, matchCache, call, vWhich, vNow, vIn, vOut, slip>>
valVars == <<vWhich, vNow, vIn, vOut>>

NoOrigin == [strategy |-> "none", ev |-> NoEvent, twin |-> NoEvent, sourceUrl |-> ""]

Idle ==
  [pc |-> "idle", partido |-> "", startedAt |-> 0,
   leftVars |-> <<>>, rightVars |-> <<>>, combined |-> <<>>,
   k |-> 0, cands |-> <<>>, ci |-> 0, eventsById |-> <<>>,
   side |-> "left", vi |-> 0, leftCands |-> <<>>, rightCands |-> <<>>,
   leftLists |-> <<>>, rightLists |-> <<>>,
   result |-> NotFound, outcome |-> "none", origin |-> NoOrigin,
   calls |-> [search |-> 0, lookup |-> 0, web |-> 0], failed |-> 0]

\* An invocation that is not made in the behaviour.
Off == [Idle EXCEPT !.pc = "off"]

\* return: the locals go out of scope
Return(c, res, org) ==
  [Idle EXCEPT !.pc = "done", !.partido = c.partido, !.startedAt = c.startedAt,
               !.result = res, !.outcome = "returned", !.origin = org,
               !.calls = c.calls, !.failed = c.failed]

\* an error leaves enrichGenericSelection: the promise it returned is rejected
Throw(c) ==
  [Idle EXCEPT !.pc = "done", !.partido = c.partido, !.startedAt = c.startedAt,
               !.outcome = "threw", !.calls = c.calls, !.failed = c.failed]

\* a promise rejects before any handler is attached to it, and the runtime
\* raises the unhandled rejection as an uncaught exception: the process ends
Unhandled(c) ==
  [Idle EXCEPT !.pc = "crashed", !.partido = c.partido, !.startedAt = c.startedAt,
               !.outcome = "unhandled", !.calls = c.calls, !.failed = c.failed]

Failed(c) == [c EXCEPT !.failed = @ + 1]

(***************************************************************************)
(* enrichGenericSelection (src/unnamed/part_000), from one await to the    *)
(* next.  pc names the call awaited.                                       *)
(***************************************************************************)
IssueSearch(c) == [c EXCEPT !.calls.search = @ + 1]
IssueLookup(c) == [c EXCEPT !.calls.lookup = @ + 1]

\* Combos without the slice: every combination is tried.
AllCombos(c) == c.combined

\* combinedQueries.slice(0, 6)
Combos(c) == Take(c.combined, ComboCap)

\* firstCandidatesOrNull(vars), at its i-th variant
SearchSide(c, side, i) ==
  IssueSearch([c EXCEPT !.pc = "B_search", !.side = side, !.vi = i,
                        !.k = 0, !.cands = <<>>, !.ci = 0, !.eventsById = <<>>])

Pending(cands) == [i \in 1..Len(cands) |-> [status |-> "pending", value |-> <<>>]]

\* AfterSideSearches without the B-no-cands return: on to the web fallback.
AfterSideSearchesToWeb(c) ==
  IF c.leftCands = <<>> \/ c.rightCands = <<>>
    THEN [c EXCEPT !.pc = "C_fetch", !.calls.web = @ + 1]
    ELSE [c EXCEPT !.pc = "B_fan", !.vi = 0,
                   !.leftLists = [i \in 1..Len(c.leftCands) |->
                                    [status |-> "pending", value |-> <<>>]],
                   !.rightLists = [i \in 1..Len(c.rightCands) |->
                                     [status |-> "pending", value |-> <<>>]],
                   !.calls.lookup = @ + Len(c.leftCands) + Len(c.rightCands)]

\* After both firstCandidatesOrNull: B-no-cands, or the fan-out of the lookups.
AfterSideSearches(c) ==
  IF c.leftCands = <<>> \/ c.rightCands = <<>>
    THEN Return(c, NotFound, NoOrigin)
    ELSE [c EXCEPT !.pc = "B_fan", !.vi = 0,
                   !.leftLists = Pending(c.leftCands),
                   !.rightLists = Pending(c.rightCands),
                   !.calls.lookup = @ + Len(c.leftCands) + Len(c.rightCands)]

\* firstCandidatesOrNull returned cands for c.side (<<>> standing for null).
SideDone(c, cands) ==
  IF c.side = "left"
    THEN SearchSide([c EXCEPT !.leftCands = cands], "right", 1)
    ELSE AfterSideSearches([c EXCEPT !.rightCands = cands])

SideVars(c) == IF c.side = "left" THEN c.leftVars ELSE c.rightVars

\* The variant c.vi of a side gave no candidates: the next variant, or null.
NextVariant(c) ==
  IF c.vi < Len(SideVars(c))
    THEN SearchSide(c, c.side, c.vi + 1)
    ELSE SideDone(c, <<>>)

\* The combination c.k gave no fixture: the next one, or Strategy B.
NextCombo(c) ==
  IF c.k < Len(Combos(c))
    THEN IssueSearch([c EXCEPT !.pc = "A_search", !.k = c.k + 1,
                               !.cands = <<>>, !.ci = 0, !.eventsById = <<>>])
    ELSE SearchSide(c, "left", 1)

\* ScanCombo with the search of the next combination already issued when the
\* scan finds its fixture.
ScanComboSearchAhead(c) ==
  LET evs == ValuesById(c.eventsById)
      i   == firstBoth(evs, c.leftVars, c.rightVars)
  IN  IF i # 0
        THEN Return(IF c.k < Len(Combos(c)) THEN IssueSearch(c) ELSE c,
                    resultOfA(evs[i]),
                    [NoOrigin EXCEPT !.strategy = "A", !.ev = evs[i]])
        ELSE NextCombo(c)

\* The scan of Strategy A over the events fetched for the combination.
ScanCombo(c) ==
  LET evs == ValuesById(c.eventsById)
      i   == firstBoth(evs, c.leftVars, c.rightVars)
  IN  IF i # 0
        THEN Return(c, resultOfA(evs[i]),
                    [NoOrigin EXCEPT !.strategy = "A", !.ev = evs[i]])
        ELSE NextCombo(c)

\* CatchA leaving the loop: a failed combination ends Strategy A.
CatchAToStrategyB(c) == SearchSide(c, "left", 1)

\* catch (e) { logD("A-fail", ...) } of the loop of Strategy A
CatchA(c) == NextCombo(c)

\* catch (e) { logD("B-search-fail", ...) } of firstCandidatesOrNull
CatchBSearch(c) == NextVariant(c)

\* catch (e) { console.log("[ENRICH web fallback error]", ...) }: falls to return null
CatchWeb(c) == Return(c, NotFound, NoOrigin)

\* Promise.allSettled: a rejected lookup is one more outcome
SettleRejected(c, side, i) ==
  IF side = "left"
    THEN [c EXCEPT !.leftLists[i] = [status |-> "rejected", value |-> <<>>]]
    ELSE [c EXCEPT !.rightLists[i] = [status |-> "rejected", value |-> <<>>]]

SettleFulfilled(c, side, i, evs) ==
  IF side = "left"
    THEN [c EXCEPT !.leftLists[i] = [status |-> "fulfilled", value |-> evs]]
    ELSE [c EXCEPT !.rightLists[i] = [status |-> "fulfilled", value |-> evs]]

\* lists.flatMap(p => p.status === "fulfilled" ? (p.value || []) : [])
RECURSIVE FulfilledEvents(_)
FulfilledEvents(lists) ==
  IF lists = <<>> THEN <<>>
  ELSE (IF Head(lists).status = "fulfilled" THEN Head(lists).value ELSE <<>>)
       \o FulfilledEvents(Tail(lists))

AllSettled(lists) == \A i \in 1..Len(lists) : lists[i].status # "pending"

\* The intersection of Strategy B, then the request of the web fallback.
Intersect(c) ==
  LET leftEvents  == FulfilledEvents(c.leftLists)
      rightEvents == FulfilledEvents(c.rightLists)
      i           == firstCollision(leftEvents, rightEvents)
  IN  IF i # 0
        THEN LET twin == twinOf(rightEvents, sig(leftEvents[i]))
             IN  Return(c, resultOfB(leftEvents[i], twin),
                        [NoOrigin EXCEPT !.strategy = "B", !.ev = leftEvents[i],
                                         !.twin = twin])
        ELSE [c EXCEPT !.pc = "C_fetch", !.calls.web = @ + 1,
                       !.leftLists = <<>>, !.rightLists = <<>>,
                       !.leftCands = <<>>, !.rightCands = <<>>]

\* if (r.ok) { data = await r.json(); if (data?.found?.tournament) return {...} }
AfterWeb(c, data) ==
  IF data.ok /\ Truthy(data.tournament)
    THEN Return(c, resultOfWeb(data),
                [NoOrigin EXCEPT !.strategy = "C", !.sourceUrl = data.sourceUrl])
    ELSE Return(c, NotFound, NoOrigin)

\* Enter without the two guards: a missing side is undefined, normalised to "".
EnterUnguarded(c, raw, at) ==
  LET sides == splitSides(raw) \o <<"", "">>
      l     == sideVars(sides[1])
      r     == sideVars(sides[2])
  IN  NextCombo([c EXCEPT !.partido = raw, !.startedAt = at,
                          !.leftVars = l, !.rightVars = r,
                          !.combined = combineQueries(l, r)])

\* The synchronous start of enrichGenericSelection, up to its first await.
Enter(c, raw, at) ==
  LET sides == splitSides(raw)
      c0    == [c EXCEPT !.partido = raw, !.startedAt = at]
  IN  IF raw = "" \/ Len(sides) < 2
        THEN Return(c0, NotFound, NoOrigin)
        ELSE LET l == sideVars(sides[1])
                 r == sideVars(sides[2])
             IN  NextCombo([c0 EXCEPT !.leftVars = l, !.rightVars = r,
                                      !.combined = combineQueries(l, r)])

Set(p, c) == call' = [call EXCEPT ![p] = c]

\* The texts of the same match: the text itself and the one with the sides swapped.
Reversed(xs) == [i \in 1..Len(xs) |-> xs[Len(xs) + 1 - i]]
SameMatch(raw) ==
  {t \in Inputs : t = raw \/ splitSides(t) = Reversed(splitSides(raw))}

\* The first invocation resolves any text; a later one resolves the same match again.
Start(p) ==
  /\ call[p].pc = "idle"
  /\ \A q \in 1..(p - 1) : call[q].pc = "done"
  /\ \E raw \in (IF p = 1 THEN Inputs ELSE SameMatch(call[p - 1].partido)),
        dt \in (IF p = 1 THEN {0} ELSE Delays) :
       /\ now' = now + dt
       /\ Set(p, Enter(call[p], raw, now + dt))
  /\ UNCHANGED <<world, matchCache, valVars, slip>>

\* Upstream calls that failed so far, over all invocations.
TotalFailed ==
  LET sum[i \in 0..NumCalls] == IF i = 0 THEN 0 ELSE sum[i - 1] + call[i].failed
  IN  sum[NumCalls]

CanFail(p) == TotalFailed < MaxFailures

ASearchAnswer(p) ==
  /\ call[p].pc = "A_search"
  /\ LET c     == call[p]
         cands == topTennisCandidates(searchAll(world, Combos(c)[c.k]))
     IN  Set(p, IF Take(cands, CandCap) = <<>>
                  THEN ScanCombo(c)
                  ELSE IssueLookup([c EXCEPT !.pc = "A_lookup", !.cands = cands,
                                             !.ci = 1]))
  /\ UNCHANGED <<now, world, matchCache, valVars, slip>>

ASearchFails(p) ==
  /\ call[p].pc = "A_search"
  /\ CanFail(p)
  /\ Set(p, CatchA(Failed(call[p])))
  /\ UNCHANGED <<now, world, matchCache, valVars, slip>>

ALookupAnswer(p) ==
  /\ call[p].pc = "A_lookup"
  /\ LET c   == call[p]
         top == Take(c.cands, CandCap)
         id  == top[c.ci].id
         c1  == [c EXCEPT !.eventsById =
                   [j \in DOMAIN c.eventsById \cup {id} |->
                      IF j = id THEN nextEventsForPlayer(world, id)
                      ELSE c.eventsById[j]]]
     IN  Set(p, IF c.ci < Len(top)
                  THEN IssueLookup([c1 EXCEPT !.ci = c.ci + 1])
                  ELSE ScanCombo(c1))
  /\ UNCHANGED <<now, world, matchCache, valVars, slip>>

ALookupFails(p) ==
  /\ call[p].pc = "A_lookup"
  /\ CanFail(p)
  /\ Set(p, CatchA(Failed(call[p])))
  /\ UNCHANGED <<now, world, matchCache, valVars, slip>>

BSearchAnswer(p) ==
  /\ call[p].pc = "B_search"
  /\ LET c    == call[p]
         list == topTennisCandidates(searchAll(world, SideVars(c)[c.vi]))
     IN  Set(p, IF list # <<>>
                  THEN SideDone(c, Take(list, BCandCap))
                  ELSE NextVariant(c))
  /\ UNCHANGED <<now, world, matchCache, valVars, slip>>

BSearchFails(p) ==
  /\ call[p].pc = "B_search"
  /\ CanFail(p)
  /\ Set(p, CatchBSearch(Failed(call[p])))
  /\ UNCHANGED <<now, world, matchCache, valVars, slip>>

SideLists(c, side) == IF side = "left" THEN c.leftLists ELSE c.rightLists
SideCands(c, side) == IF side = "left" THEN c.leftCands ELSE c.rightCands

BLookupAnswer(p) ==
  /\ call[p].pc = "B_fan"
  /\ \E side \in {"left", "right"} :
       \E i \in 1..Len(SideLists(call[p], side)) :
         /\ SideLists(call[p], side)[i].status = "pending"
         /\ Set(p, SettleFulfilled(call[p], side, i,
                     nextEventsForPlayer(world, SideCands(call[p], side)[i].id)))
  /\ UNCHANGED <<now, world, matchCache, valVars, slip>>

BLookupFails(p) ==
  /\ call[p].pc = "B_fan"
  /\ CanFail(p)
  /\ \E side \in {"left", "right"} :
       \E i \in 1..Len(SideLists(call[p], side)) :
         /\ SideLists(call[p], side)[i].status = "pending"
         /\ Set(p, SettleRejected(Failed(call[p]), side, i))
  /\ UNCHANGED <<now, world, matchCache, valVars, slip>>

\* rightEventsPromises get their handlers from the second Promise.allSettled,
\* called once the first has resolved.  A right lookup that rejects while a
\* left one is pending is an unhandled rejection; the runtime either reports
\* it and goes on (BLookupFails) or ends the process (this action).
BLookupUnhandled(p) ==
  /\ call[p].pc = "B_fan"
  /\ CanFail(p)
  /\ ~AllSettled(call[p].leftLists)
  /\ \E i \in 1..Len(call[p].rightLists) :
       /\ call[p].rightLists[i].status = "pending"
       /\ Set(p, Unhandled(Failed(call[p])))
  /\ UNCHANGED <<now, world, matchCache, valVars, slip>>

BIntersect(p) ==
  /\ call[p].pc = "B_fan"
  /\ AllSettled(call[p].leftLists)
  /\ AllSettled(call[p].rightLists)
  /\ Set(p, Intersect(call[p]))
  /\ UNCHANGED <<now, world, matchCache, valVars, slip>>

WebResponds(p) ==
  /\ call[p].pc = "C_fetch"
  /\ \E data \in WebAnswers : Set(p, AfterWeb(call[p], data))
  /\ UNCHANGED <<now, world, matchCache, valVars, slip>>

WebFails(p) ==
  /\ call[p].pc = "C_fetch"
  /\ CanFail(p)
  /\ Set(p, CatchWeb(Failed(call[p])))
  /\ UNCHANGED <<now, world, matchCache, valVars, slip>>

NoAnswer == [tournament |-> NULL, startIso |-> NoIso]

\* no /parse-rows request is being served
NoSlip ==
  [pc |-> "off", variant |-> "none", selections |-> <<>>, i |-> 0,
   torneo |-> NULL, fecha_hora_iso |-> NoIso, rows |-> <<>>, status |-> 0,
   failures |-> 0]

Init ==
  /\ now = NowMs
  /\ world \in Worlds
  /\ matchCache = <<>>
  /\ call = [p \in Procs |-> IF p = 1 THEN Idle ELSE Off]
  /\ vWhich = "none"
  /\ vNow = 0
  /\ vIn = NoAnswer
  /\ vOut = NoAnswer
  /\ slip = NoSlip

Next ==
  \E p \in Procs :
    \/ Start(p)
    \/ ASearchAnswer(p)
    \/ ASearchFails(p)
    \/ ALookupAnswer(p)
    \/ ALookupFails(p)
    \/ BSearchAnswer(p)
    \/ BSearchFails(p)
    \/ BLookupAnswer(p)
    \/ BLookupFails(p)
    \/ BLookupUnhandled(p)
    \/ BIntersect(p)
    \/ WebResponds(p)
    \/ WebFails(p)

Spec == Init /\ [][Next]_vars

(***************************************************************************)
(* The validators, applied to the answers a model may give.                *)
(***************************************************************************)
Nows == {NowMs, NowMs + 500}

ElevenMinutesMs == 11 * 60 * 1000

StartIsoInputs(n) ==
  { NoIso, IsoText(""), IsoText("tomorrow 19:00"),
    Iso(n - ElevenMinutesMs), Iso(n - GraceMs - 1), Iso(n - GraceMs), Iso(n),
    Iso(n + HorizonMs - 1000), Iso(n + HorizonMs), Iso(n + HorizonMs + 1),
    Iso(n + HorizonMs + 1000) }

TournamentInputs ==
  { NULL, "", "ATP Tour", "WTA Tour", "Swiss Indoors Basel (ATP 500)", "League",
    "Liga Pro", "Paris Masters", "Premier League", "Tennis Tournament" }

Answers(n) == [tournament : TournamentInputs, startIso : StartIsoInputs(n)]

\* json = fixJson(json) of enrichViaOpenAI (src/unnamed/part_000)
FixJsonStep ==
  \E n \in Nows : \E j \in Answers(n) :
    /\ vWhich' = "fixJson"
    /\ vNow' = n
    /\ vIn' = j
    /\ vOut' = fixJson(j, n)
    /\ UNCHANGED <<now, world, matchCache, call, slip>>

\* the validation of enrichViaWeb (src/server.js)
WebValidateStep ==
  \E n \in Nows : \E j \in Answers(n) :
    /\ vWhich' = "enrichViaWeb"
    /\ vNow' = n
    /\ vIn' = j
    /\ vOut' = webValidate(j, n)
    /\ UNCHANGED <<now, world, matchCache, call, slip>>

\* the validation of enrichViaOpenAI (src/server.js)
OpenAIValidateStep ==
  \E n \in Nows : \E j \in Answers(n) :
    /\ vWhich' = "enrichViaOpenAI"
    /\ vNow' = n
    /\ vIn' = j
    /\ vOut' = openAIValidate(j, n)
    /\ UNCHANGED <<now, world, matchCache, call, slip>>

QuietWorld ==
  [mode |-> "none", section |-> "tennis", events |-> [e \in EntityIds |-> <<>>]]

InitValidate ==
  /\ now = NowMs
  /\ world = QuietWorld
  /\ matchCache = <<>>
  /\ call = [p \in Procs |-> Off]
  /\ vWhich = "none"
  /\ vNow = 0
  /\ vIn = NoAnswer
  /\ vOut = NoAnswer
  /\ slip = NoSlip

NextValidate == FixJsonStep \/ WebValidateStep \/ OpenAIValidateStep

SpecValidate == InitValidate /\ [][NextValidate]_vars

(***************************************************************************)
(* The name normaliser and the side split, applied to names and texts.     *)
(***************************************************************************)
\* U+2013 and U+2014, written like the marked letters as characters of their own.
enDash == "~"
emDash == "^"

Forenames == {"", "J. ", "Jannik ", "C. ", "Carlos ", "F ", "Juan Mart" \o "$" \o "n "}
Surnames  ==
  { "Sinner", "Alcaraz", "Cerundolo", "Cer" \o uAcute \o "ndolo", "del Potro",
    "Alcaraz Garfia", "FC", "." }

\* The sides given to the normaliser: none is empty.
SideInputs == {f \o n : f \in Forenames, n \in Surnames}

Separators == {" vs ", " VS ", "vs", " - ", " " \o enDash \o " ", " " \o emDash \o " "}

SplitInputs ==
  [left : {"J. Sinner", "Real Madrid"}, sep : Separators,
   right : {"C. Alcaraz", "Sevilla FC", "Davis Cup"}]

\* Sides made of single-character tokens.
InitialsOnly == {"J. K.", "A B"}

\* leftVars / rightVars of src/unnamed/part_000
SideVarsStep ==
  \E side \in SideInputs :
    /\ vWhich' = "sideVars"
    /\ vIn' = side
    /\ vOut' = sideVars(side)
    /\ UNCHANGED <<now, world, matchCache, call, vNow, slip>>

\* leftVars / rightVars of src/server.js
ExpandNameStep ==
  \E side \in SideInputs \cup InitialsOnly :
    /\ vWhich' = "expandName"
    /\ vIn' = side
    /\ vOut' = expandNameOfServer(side)
    /\ UNCHANGED <<now, world, matchCache, call, vNow, slip>>

\* const sides = raw.split(/vs/i).map(s => s.trim()).filter(Boolean)
SplitSidesStep ==
  \E t \in SplitInputs :
    /\ vWhich' = "splitSides"
    /\ vIn' = t
    /\ vOut' = splitSides(t.left \o t.sep \o t.right)
    /\ UNCHANGED <<now, world, matchCache, call, vNow, slip>>

NextNames == SideVarsStep \/ ExpandNameStep \/ SplitSidesStep

SpecNames == InitValidate /\ [][NextNames]_vars

(***************************************************************************)
(* Progress of an invocation. A call made through fetchJsonWithTimeout is  *)
(* aborted by its timer after ms, so the await on it settles, with an      *)
(* answer or with an error: TimedCallsSettle is weak fairness of these     *)
(* steps, weak fairness of TimedCallSettles(p) with ENABLED written out as *)
(* TimedPending(p). The fetch of the web fallback is given no signal and   *)
(* no timer; nothing in the code makes it settle, so WebResponds and       *)
(* WebFails carry no fairness. The steps between awaits are synchronous    *)
(* code, which runs once it is scheduled. (ENABLED is written out for the  *)
(* actions whose ENABLED is too costly for TLC to evaluate.)               *)
(***************************************************************************)
\* const t = setTimeout(() => ctrl.abort(), ms): an await under a timer
TimedPending(p) ==
  \/ call[p].pc \in {"A_search", "A_lookup", "B_search"}
  \/ /\ call[p].pc = "B_fan"
     /\ ~(AllSettled(call[p].leftLists) /\ AllSettled(call[p].rightLists))

TimedCallSettles(p) ==
  \/ ASearchAnswer(p) \/ ASearchFails(p)
  \/ ALookupAnswer(p) \/ ALookupFails(p)
  \/ BSearchAnswer(p) \/ BSearchFails(p)
  \/ BLookupAnswer(p) \/ BLookupFails(p) \/ BLookupUnhandled(p)

TimedCallsSettle ==
  \A p \in Procs : []<>(~TimedPending(p)) \/ []<><<TimedCallSettles(p)>>_vars

\* const leftEvents = ...: the code after both Promise.allSettled runs once
\* the last lookup has settled; weak fairness of BIntersect(p), with ENABLED
\* written out as JoinReady(p).
JoinReady(p) ==
  /\ call[p].pc = "B_fan"
  /\ AllSettled(call[p].leftLists)
  /\ AllSettled(call[p].rightLists)

JoinContinues ==
  \A p \in Procs : []<>(~JoinReady(p)) \/ []<><<BIntersect(p)>>_vars

Progress ==
  /\ \A p \in Procs : WF_vars(Start(p))
  /\ TimedCallsSettle
  /\ JoinContinues

SpecLive == Init /\ [][Next]_vars /\ Progress

(***************************************************************************)
(* Two invocations in flight at once: the event loop runs the code between *)
(* two awaits of one invocation, then that of the other, in any order.     *)
(***************************************************************************)
ConcurrentWorlds ==
  {w \in Worlds : /\ w.section = "tennis"
                  /\ w.mode \in {"any", "none"}
                  /\ w.events[10] \in {<<>>, <<EvSingles>>}
                  /\ w.events[20] = <<EvDoubles>>}

ConcurrentInputs == {SinnerCerundolo, "J. Sinner vs C. Alcaraz", "Sinner"}

\* enrichGenericSelection is called while another invocation may be awaiting
StartConcurrent(p) ==
  /\ call[p].pc = "idle"
  /\ \E raw \in ConcurrentInputs : Set(p, Enter(call[p], raw, now))
  /\ UNCHANGED <<now, world, matchCache, valVars, slip>>

InFlight(c) == c.pc \notin {"off", "idle", "done", "crashed"}

\* BLookupUnhandled with the runtime ending the process: the invocations in
\* flight end with it.
BLookupUnhandledExit(p) ==
  /\ call[p].pc = "B_fan"
  /\ CanFail(p)
  /\ ~AllSettled(call[p].leftLists)
  /\ \E i \in 1..Len(call[p].rightLists) :
       /\ call[p].rightLists[i].status = "pending"
       /\ call' = [q \in Procs |->
                     IF q = p THEN Unhandled(Failed(call[p]))
                     ELSE IF InFlight(call[q])
                       THEN [Unhandled(call[q]) EXCEPT !.outcome = "exited"]
                       ELSE call[q]]
  /\ UNCHANGED <<now, world, matchCache, valVars, slip>>

InitConcurrent ==
  /\ now = NowMs
  /\ world \in ConcurrentWorlds
  /\ matchCache = <<>>
  /\ call = [p \in Procs |-> Idle]
  /\ vWhich = "none"
  /\ vNow = 0
  /\ vIn = NoAnswer
  /\ vOut = NoAnswer
  /\ slip = NoSlip

NextConcurrent ==
  \E p \in Procs :
    \/ StartConcurrent(p)
    \/ ASearchAnswer(p)
    \/ ASearchFails(p)
    \/ ALookupAnswer(p)
    \/ ALookupFails(p)
    \/ BSearchAnswer(p)
    \/ BSearchFails(p)
    \/ BLookupAnswer(p)
    \/ BLookupFails(p)
    \/ BLookupUnhandledExit(p)
    \/ BIntersect(p)
    \/ WebResponds(p)
    \/ WebFails(p)

SpecConcurrent == InitConcurrent /\ [][NextConcurrent]_vars

(***************************************************************************)
(* enrichViaOpenAI (src/unnamed/part_000): a first model call, the         *)
(* validation of its answer and, when the validated answer lacks a field,  *)
(* a second call whose validated answer is the one returned.  vIn holds    *)
(* the validated first answer and the model calls made, vOut the value     *)
(* returned.                                                               *)
(***************************************************************************)
\* !json?.tournament || !json?.startIso
LacksField(j) == ~Truthy(j.tournament) \/ ~TruthyIso(j.startIso)

\* json = fixJson(json2): the second answer replaces the first
RetryResult(first, second) == second

\* raw = await oneTry(0); json = fixJson(safeParseJson(raw) || {})
FirstTryAnswers ==
  /\ vWhich = "none"
  /\ \E n \in Nows : \E j \in Answers(n) :
       LET first == fixJson(j, n)
       IN  /\ vNow' = n
           /\ IF LacksField(first)
                THEN /\ vWhich' = "oneTry(1)"
                     /\ vIn' = [first |-> first, calls |-> 2]
                     /\ vOut' = NoAnswer
                ELSE /\ vWhich' = "returned"
                     /\ vIn' = [first |-> first, calls |-> 1]
                     /\ vOut' = first
  /\ UNCHANGED <<now, world, matchCache, call, slip>>

\* openai.chat.completions.create rejects in oneTry(0): enrichViaOpenAI throws
FirstTryFails ==
  /\ vWhich = "none"
  /\ vWhich' = "threw"
  /\ vIn' = [first |-> NoAnswer, calls |-> 1]
  /\ UNCHANGED <<now, world, matchCache, call, vNow, vOut, slip>>

\* raw = await oneTry(1); json = fixJson(safeParseJson(raw) || {}); return json
SecondTryAnswers ==
  /\ vWhich = "oneTry(1)"
  /\ \E j \in Answers(vNow) :
       vOut' = RetryResult(vIn.first, fixJson(j, vNow))
  /\ vWhich' = "returned"
  /\ UNCHANGED <<now, world, matchCache, call, vNow, vIn, slip>>

\* openai.chat.completions.create rejects in oneTry(1)
SecondTryFails ==
  /\ vWhich = "oneTry(1)"
  /\ vWhich' = "threw"
  /\ UNCHANGED <<now, world, matchCache, call, vNow, vIn, vOut, slip>>

NextOpenAI ==
  FirstTryAnswers \/ FirstTryFails \/ SecondTryAnswers \/ SecondTryFails

SpecOpenAI == InitValidate /\ [][NextOpenAI]_vars

(***************************************************************************)
(* GET /check-result (src/server.js): the sources of the model's answer    *)
(* are filtered by the host of their URL against pickDomains(sport).       *)
(***************************************************************************)
\* The text of s before the first occurrence of sub (all of s when none).
Before(s, sub) ==
  IF indexOf(s, sub) = 0 THEN s ELSE SubSeq(s, 1, indexOf(s, sub) - 1)

\* The text of s after the first occurrence of sub (all of s when none).
After(s, sub) ==
  IF indexOf(s, sub) = 0 THEN s
  ELSE SubSeq(s, indexOf(s, sub) + Len(sub), Len(s))

\* new URL(url).hostname: NULL when the constructor throws.  The authority
\* follows the scheme, ends at the first "/", and the host in it follows the
\* user information and precedes the port; it is lower-cased.
hostname(url) ==
  IF url = NULL \/ indexOf(url, "https://") # 1 THEN NULL
  ELSE LET authority == Before(After(url, "https://"), "/")
           host      == toLowerCase(Before(After(authority, "@"), ":"))
       IN  IF host = "" THEN NULL ELSE host

\* String.prototype.endsWith
endsWith(s, suffix) ==
  /\ Len(s) >= Len(suffix)
  /\ SubSeq(s, Len(s) - Len(suffix) + 1, Len(s)) = suffix

\* sources.filter(s => { try { host = new URL(s.url).hostname;
\*   return domains.some(d => host.endsWith(d)) } catch { return false } }).slice(0, 3)
okSources(sources, domains) ==
  Take(SelectSeq(sources, LAMBDA src :
         /\ hostname(src.url) # NULL
         /\ \E i \in 1..Len(domains) : endsWith(hostname(src.url), domains[i])), 3)

MaxSources == 4

SourceUrls ==
  { "https://www.sofascore.com/match/1", "https://sofascore.com/event/2",
    "https://www.ATPTour.com/scores", "https://notsofascore.com/match/1",
    "https://some-random-blog.com/post", "sofascore.com/match/1" }

SourceLists ==
  UNION {[1..n -> [url : SourceUrls]] : n \in 0..MaxSources}

\* app.get("/check-result"): vIn is the query and the sources of the model's
\* answer, vOut the sources of the response.
CheckResultStep ==
  /\ vWhich = "none"
  /\ \E partido \in {NULL, "Sinner vs Alcaraz"}, sport \in {NULL, "tennis", "football"},
        sources \in SourceLists :
       /\ vIn' = [partido |-> partido, sport |-> sport, sources |-> sources]
       /\ IF partido = NULL
            THEN vWhich' = "check-result 400" /\ vOut' = <<>>
            ELSE /\ vWhich' = "check-result"
                 /\ vOut' = okSources(sources, pickDomains(sport))
  /\ UNCHANGED <<now, world, matchCache, call, vNow, slip>>

\* fetch or response.json() throws: catch (err) { res.status(500) }
CheckResultFails ==
  /\ vWhich = "none"
  /\ vWhich' = "check-result 500"
  /\ vIn' = [partido |-> "Sinner vs Alcaraz", sport |-> NULL, sources |-> <<>>]
  /\ vOut' = <<>>
  /\ UNCHANGED <<now, world, matchCache, call, vNow, slip>>

NextCheckResult == CheckResultStep \/ CheckResultFails

SpecCheckResult == InitValidate /\ [][NextCheckResult]_vars

(***************************************************************************)
(* The table bet_selections and the handlers that write its two time       *)
(* columns.  vOut is the table, vWhich the handler that wrote last, vIn    *)
(* the request it served.                                                  *)
(***************************************************************************)
MaxRows == 2

Row(utc, text) == [start_time_utc |-> utc, start_time_text |-> text]

KickoffIso == Iso(NowMs + 3600 * 1000)
TimeTexts  == {NULL, "", "Hoy 19:00"}

\* The date values a request body may carry (null, "", a text that is no
\* date, an ISO instant).
IsoValues == {NoIso, IsoText(""), IsoText("tomorrow 19:00"), KickoffIso}

\* POST /parse (src/unnamed/part_000): insertRows from the selections the
\* schema accepted (start_time_utc: datetime | null, start_time_text: string | null)
ParseInsert ==
  /\ Len(vOut) < MaxRows
  /\ \E utc \in {NoIso, KickoffIso}, text \in TimeTexts :
       /\ vIn' = Row(utc, text)
       /\ vOut' = Append(vOut, Row(IF TruthyIso(utc) THEN utc ELSE NoIso, text))
  /\ vWhich' = "/parse"
  /\ UNCHANGED <<now, world, matchCache, call, vNow, slip>>

\* POST /parse-rows (src/server.js:557 and the later variants): insertObj
ParseRowsInsert ==
  /\ Len(vOut) < MaxRows
  /\ \E iso \in {NoIso, KickoffIso}, texto \in TimeTexts :
       /\ vIn' = [fecha_hora_iso |-> iso, fecha_hora_texto |-> texto]
       /\ vOut' = Append(vOut,
                     Row(IF TruthyIso(iso) THEN iso ELSE NoIso,
                         IF TruthyIso(iso) THEN NULL
                         ELSE IF Truthy(texto) THEN texto ELSE NULL))
  /\ vWhich' = "/parse-rows insert"
  /\ UNCHANGED <<now, world, matchCache, call, vNow, slip>>

\* POST /parse-rows (src/server.js:178): updateObj of a selection that
\* carries its selection_id; update() writes the columns of updateObj only
ParseRowsUpdate ==
  /\ \E i \in 1..Len(vOut) : \E fechaISO \in {NoIso, KickoffIso} :
       /\ vIn' = [selection_id |-> i, fechaISO |-> fechaISO]
       /\ vOut' = IF TruthyIso(fechaISO)
                    THEN [vOut EXCEPT ![i].start_time_utc = fechaISO]
                    ELSE vOut
  /\ vWhich' = "/parse-rows update"
  /\ UNCHANGED <<now, world, matchCache, call, vNow, slip>>

\* POST /update-selection (src/server.js): patch.  defined = FALSE is a body
\* without fecha_hora_iso; new Date(text).toISOString() throws on a text
\* that is no date and the handler answers 500.
UpdateSelectionPatch ==
  /\ \E i \in 1..Len(vOut) : \E defined \in BOOLEAN, iso \in IsoValues :
       /\ vIn' = [selection_id |-> i, defined |-> defined, fecha_hora_iso |-> iso]
       /\ vOut' = IF ~defined \/ (TruthyIso(iso) /\ ParsesToNaN(iso)) THEN vOut
                  ELSE IF TruthyIso(iso)
                    THEN [vOut EXCEPT ![i] = Row(iso, NULL)]
                    ELSE [vOut EXCEPT ![i].start_time_utc = NoIso]
  /\ vWhich' = "/update-selection patch"
  /\ UNCHANGED <<now, world, matchCache, call, vNow, slip>>

\* POST /update-selection (src/unnamed/part_000:597): updates.  An invalid
\* Date is serialised as null.
UpdateSelectionUpdates ==
  /\ \E i \in 1..Len(vOut) : \E defined \in BOOLEAN, iso \in IsoValues :
       /\ vIn' = [selection_id |-> i, defined |-> defined, fecha_hora_iso |-> iso]
       /\ vOut' = IF ~defined THEN vOut
                  ELSE IF TruthyIso(iso)
                    THEN [vOut EXCEPT ![i] =
                            Row(IF ParsesToNaN(iso) THEN NoIso ELSE iso, NULL)]
                    ELSE [vOut EXCEPT ![i].start_time_utc = NoIso]
  /\ vWhich' = "/update-selection updates"
  /\ UNCHANGED <<now, world, matchCache, call, vNow, slip>>

InitRows ==
  /\ now = NowMs
  /\ world = QuietWorld
  /\ matchCache = <<>>
  /\ call = [p \in Procs |-> Off]
  /\ vWhich = "none"
  /\ vNow = 0
  /\ vIn = NoAnswer
  /\ vOut = <<>>
  /\ slip = NoSlip

NextRows ==
  \/ ParseInsert
  \/ ParseRowsInsert
  \/ ParseRowsUpdate
  \/ UpdateSelectionPatch
  \/ UpdateSelectionUpdates

SpecRows == InitRows /\ [][NextRows]_vars

(***************************************************************************)
(* A crowded index and full names: more combinations than Strategy A tries *)
(* and more candidates than either strategy looks up.                      *)
(***************************************************************************)
CrowdedWorlds ==
  [mode : {"crowded"}, section : Sections,
   events : {f \in [EntityIds \cup {40, 50} ->
                      {<<>>, <<EvSingles>>, <<EvDoubles>>, <<EvStarted>>}] :
               /\ f[30] \in {<<>>, <<EvDoubles>>}
               /\ f[10] \in {<<>>, <<EvStarted>>}
               /\ f[20] \in {<<>>, <<EvDoubles>>, <<EvStarted>>}
               /\ f[40] \in {<<>>, <<EvSingles>>}
               /\ f[50] = <<>>}]

FullNameInputs ==
  { "Francisco Cerundolo vs Carlos Alcaraz",
    "Jannik Sinner vs Carlos Alcaraz",
    SinnerCerundolo }

StartFullName(p) ==
  /\ call[p].pc = "idle"
  /\ \E raw \in FullNameInputs : Set(p, Enter(call[p], raw, now))
  /\ UNCHANGED <<now, world, matchCache, valVars, slip>>

InitCrowded ==
  /\ now = NowMs
  /\ world \in CrowdedWorlds
  /\ matchCache = <<>>
  /\ call = [p \in Procs |-> IF p = 1 THEN Idle ELSE Off]
  /\ vWhich = "none"
  /\ vNow = 0
  /\ vIn = NoAnswer
  /\ vOut = NoAnswer
  /\ slip = NoSlip

NextCrowded ==
  \E p \in Procs :
    \/ StartFullName(p)
    \/ ASearchAnswer(p)
    \/ ASearchFails(p)
    \/ ALookupAnswer(p)
    \/ ALookupFails(p)
    \/ BSearchAnswer(p)
    \/ BSearchFails(p)
    \/ BLookupAnswer(p)
    \/ BLookupFails(p)
    \/ BLookupUnhandled(p)
    \/ BIntersect(p)
    \/ WebResponds(p)
    \/ WebFails(p)

SpecCrowded == InitCrowded /\ [][NextCrowded]_vars

(***************************************************************************)
(* The /parse-rows handlers: the loop over the selections of a slip, the   *)
(* enrichment of a selection that lacks its tournament or its time, and    *)
(* what a failure of the enrichment's upstream call does to the request.   *)
(***************************************************************************)
MaxSelections == 2

\* The handlers registered for POST /parse-rows. enricher is the function
\* the loop awaits, always says whether it is called for every selection,
\* fallback whether enrichViaOpenAI is tried after it, and onFailure what a
\* failed upstream call of the enricher becomes for the handler: "null" when
\* a try/catch in or around the enricher swallows it, "throw" when it reaches
\* the handler's own catch, "crash" when it is a rejection nobody handles.
ParseRowsVariants ==
  { [at |-> "server.js:178", enricher |-> "enrichGenericSelection",
     always |-> TRUE, fallback |-> FALSE, onFailure |-> {"null"}],
    [at |-> "server.js:557", enricher |-> "enrichViaWeb",
     always |-> FALSE, fallback |-> TRUE, onFailure |-> {"null"}],
    [at |-> "server.js:1046", enricher |-> "enrichViaWeb",
     always |-> FALSE, fallback |-> FALSE, onFailure |-> {"throw"}],
    [at |-> "part_000:526", enricher |-> "enrichGenericSelection",
     always |-> TRUE, fallback |-> FALSE, onFailure |-> {"null", "crash"}],
    [at |-> "part_000:940", enricher |-> "enrichViaOpenAI",
     always |-> FALSE, fallback |-> FALSE, onFailure |-> {"throw"}],
    [at |-> "part_001:167", enricher |-> "enrichViaOpenAI",
     always |-> FALSE, fallback |-> FALSE, onFailure |-> {"null"}] }

\* The selections parseImageWithOpenAI extracts from a ticket, with the time
\* already resolved from fecha_hora_texto where the ticket carries one.
SelectionInputs ==
  { [partido |-> SinnerCerundolo, torneo |-> NULL, fecha_hora_iso |-> NoIso],
    [partido |-> "J. Sinner vs C. Alcaraz", torneo |-> "Roland Garros",
     fecha_hora_iso |-> NoIso],
    [partido |-> PhantomMatch, torneo |-> "LaLiga",
     fecha_hora_iso |-> Iso(NowMs + 3600000)] }

SlipInputs ==
  UNION { [1..n -> SelectionInputs] : n \in 1..MaxSelections }

\* What an enricher returns: null (or an object without either field), a
\* tournament alone, or a tournament and a start time.
EnrichResults ==
  { NoAnswer,
    [tournament |-> "Paris Masters", startIso |-> NoIso],
    [tournament |-> "Paris Masters", startIso |-> Iso(NowMs + 7200000)],
    [tournament |-> "Davis Cup Finals", startIso |-> Iso(NowMs + 10800000)] }

\* (!torneo || !fecha_hora_iso) && partido; the generic handlers always call
NeedsEnrich(v, torneo, iso, partido) ==
  v.always \/ ((~Truthy(torneo) \/ ~TruthyIso(iso)) /\ Truthy(partido))

\* MergeTorneo without the test of torneo: the answer's tournament wins.
MergeTorneoOverwriting(torneo, ans) ==
  IF Truthy(ans.tournament) THEN ans.tournament ELSE torneo

\* if (!torneo && web.tournament) torneo = web.tournament
MergeTorneo(torneo, ans) ==
  IF ~Truthy(torneo) /\ Truthy(ans.tournament) THEN ans.tournament ELSE torneo

\* if (!fecha_hora_iso && web.startIso) fecha_hora_iso = web.startIso
MergeIso(iso, ans) ==
  IF ~TruthyIso(iso) /\ TruthyIso(ans.startIso) THEN ans.startIso ELSE iso

\* insert into bet_selections, rows.push(...), and the next turn of the for
PushRow(s, torneo, iso, unresolved) ==
  [s EXCEPT !.pc = "loop", !.i = s.i + 1, !.torneo = NULL,
            !.fecha_hora_iso = NoIso,
            !.rows = Append(s.rows,
                       [partido |-> s.selections[s.i].partido,
                        torneo |-> torneo, fecha_hora_iso |-> iso,
                        unresolved |-> unresolved])]

\* After the first enricher: the fallback of server.js:615 when something is
\* still missing, the row otherwise.
AfterEnrich(s, v, torneo, iso, unresolved) ==
  IF v.fallback /\ (~Truthy(torneo) \/ ~TruthyIso(iso))
    THEN [s EXCEPT !.pc = "fallback", !.torneo = torneo, !.fecha_hora_iso = iso]
    ELSE PushRow(s, torneo, iso, unresolved)

\* the variant of a slip being served
VariantOf(s) == CHOOSE v \in ParseRowsVariants : v.at = s.variant

\* a selection that needs no enrichment is stored as extracted
SelectionComplete ==
  /\ slip.pc = "loop"
  /\ slip.i <= Len(slip.selections)
  /\ LET sel == slip.selections[slip.i] IN
       /\ ~NeedsEnrich(VariantOf(slip), sel.torneo, sel.fecha_hora_iso, sel.partido)
       /\ slip' = PushRow(slip, sel.torneo, sel.fecha_hora_iso, FALSE)
  /\ UNCHANGED <<now, world, matchCache, call, valVars>>

\* the enricher returns (null included)
EnrichAnswers ==
  /\ slip.pc = "loop"
  /\ slip.i <= Len(slip.selections)
  /\ LET sel == slip.selections[slip.i] IN
       /\ NeedsEnrich(VariantOf(slip), sel.torneo, sel.fecha_hora_iso, sel.partido)
       /\ \E ans \in EnrichResults :
            slip' = AfterEnrich(slip, VariantOf(slip),
                                MergeTorneo(sel.torneo, ans),
                                MergeIso(sel.fecha_hora_iso, ans),
                                ans = NoAnswer)
  /\ UNCHANGED <<now, world, matchCache, call, valVars>>

\* the upstream call of the enricher fails
EnrichFails ==
  /\ slip.pc = "loop"
  /\ slip.i <= Len(slip.selections)
  /\ LET sel == slip.selections[slip.i]
         s   == [slip EXCEPT !.failures = slip.failures + 1] IN
       /\ NeedsEnrich(VariantOf(slip), sel.torneo, sel.fecha_hora_iso, sel.partido)
       /\ \E how \in VariantOf(slip).onFailure :
            slip' = CASE how = "null" ->
                           AfterEnrich(s, VariantOf(slip), sel.torneo,
                                       sel.fecha_hora_iso, TRUE)
                      [] how = "throw" ->
                           [s EXCEPT !.pc = "done", !.status = 500]
                      [] how = "crash" ->
                           [s EXCEPT !.pc = "crashed"]
  /\ UNCHANGED <<now, world, matchCache, call, valVars>>

\* enrichViaOpenAI after enrichViaWeb (server.js:615-624) returns
FallbackAnswers ==
  /\ slip.pc = "fallback"
  /\ \E ans \in EnrichResults :
       slip' = PushRow(slip, MergeTorneo(slip.torneo, ans),
                       MergeIso(slip.fecha_hora_iso, ans),
                       /\ ans = NoAnswer
                       /\ slip.torneo = slip.selections[slip.i].torneo
                       /\ slip.fecha_hora_iso = slip.selections[slip.i].fecha_hora_iso)
  /\ UNCHANGED <<now, world, matchCache, call, valVars>>

\* enrichViaOpenAI after enrichViaWeb fails: catch (_) {}
FallbackFails ==
  /\ slip.pc = "fallback"
  /\ slip' = PushRow([slip EXCEPT !.failures = slip.failures + 1],
                     slip.torneo, slip.fecha_hora_iso,
                     /\ slip.torneo = slip.selections[slip.i].torneo
                     /\ slip.fecha_hora_iso = slip.selections[slip.i].fecha_hora_iso)
  /\ UNCHANGED <<now, world, matchCache, call, valVars>>

\* return res.json(rows)
RespondRows ==
  /\ slip.pc = "loop"
  /\ slip.i > Len(slip.selections)
  /\ slip' = [slip EXCEPT !.pc = "done", !.status = 200]
  /\ UNCHANGED <<now, world, matchCache, call, valVars>>

InitParseRows ==
  /\ now = NowMs
  /\ world = QuietWorld
  /\ matchCache = <<>>
  /\ call = [p \in Procs |-> Off]
  /\ vWhich = "none"
  /\ vNow = 0
  /\ vIn = NoAnswer
  /\ vOut = NoAnswer
  /\ \E v \in ParseRowsVariants : \E sels \in SlipInputs :
       slip = [NoSlip EXCEPT !.pc = "loop", !.variant = v.at,
                             !.selections = sels, !.i = 1]

NextParseRows ==
  \/ SelectionComplete
  \/ EnrichAnswers
  \/ EnrichFails
  \/ FallbackAnswers
  \/ FallbackFails
  \/ RespondRows

SpecParseRows == InitParseRows /\ [][NextParseRows]_vars

\* Behaviours in which enrichGenericSelection is invoked NumCalls times in a row.
InitRepeat ==
  /\ now = NowMs
  /\ world \in Worlds
  /\ matchCache = <<>>
  /\ call = [p \in Procs |-> Idle]
  /\ vWhich = "none"
  /\ vNow = 0
  /\ vIn = NoAnswer
  /\ vOut = NoAnswer
  /\ slip = NoSlip

SpecRepeat == InitRepeat /\ [][Next]_vars

(***************************************************************************)
(* Properties of enrichGenericSelection and of the validators.             *)
(***************************************************************************)
LeftOf(c)  == sideVars(splitSides(c.partido)[1])
RightOf(c) == sideVars(splitSides(c.partido)[2])

Returned(p) == call[p].pc = "done" /\ call[p].outcome = "returned"

fieldHas(name, vs) ==
  \E i \in 1..Len(vs) : includes(normalizePlain(name), normalizePlain(vs[i]))

\* The two name fields of ev each hold a variant of a different side.
DistinctFields(ev, leftVars, rightVars) ==
  \/ fieldHas(ev.home, leftVars) /\ fieldHas(ev.away, rightVars)
  \/ fieldHas(ev.away, leftVars) /\ fieldHas(ev.home, rightVars)

\* The host is one of the trusted domains of some sport, or a subdomain of one.
HostAllowed(host) ==
  \E sport \in {NULL, "tennis", "football"} :
    \E i \in 1..Len(pickDomains(sport)) :
      LET d == pickDomains(sport)[i]
      IN  \/ host = d
          \/ /\ Len(host) > Len(d)
             /\ SubSeq(host, Len(host) - Len(d), Len(host)) = "." \o d

\* C1: every result returned with a non-null startIso, by whichever strategy,
\* was derived from a fixture event whose home/away names matched a variant
\* of the left side and a variant of the right side of the input.
HitNamesBothSides ==
  \A p \in Procs :
    (Returned(p) /\ call[p].result.found /\ call[p].result.startIso # NoIso) =>
      /\ call[p].origin.strategy \in {"A", "B"}
      /\ bothSides(call[p].origin.ev, LeftOf(call[p]), RightOf(call[p]))

\* C2: Strategy A accepts a fixture only when its home and away names are
\* distinct fields each containing a variant of a distinct input side, never
\* when one single name field holds the variants of both sides.
StrategyADistinctFields ==
  \A p \in Procs :
    (Returned(p) /\ call[p].origin.strategy = "A") =>
      DistinctFields(call[p].origin.ev, LeftOf(call[p]), RightOf(call[p]))

\* C3: resolving the same match text a second time within the 5-minute TTL
\* returns the identical result and issues no search and no fixture lookup.
SecondCallServedFromCache ==
  \A p \in Procs \ {1} :
    ( /\ Returned(p) /\ Returned(p - 1)
      /\ call[p].partido = call[p - 1].partido
      /\ call[p].startedAt - call[p - 1].startedAt < CACHE_MS ) =>
      /\ call[p].result = call[p - 1].result
      /\ call[p].calls.search = 0
      /\ call[p].calls.lookup = 0

\* C4: every result returned by enrichGenericSelection has passed the
\* validator: its startIso, when not null, lies within
\* [now - 10 minutes, now + 3 days] and its tournament is not a generic name.
ReturnedResultValidated ==
  \A p \in Procs :
    (Returned(p) /\ call[p].result.found) =>
      /\ TruthyIso(call[p].result.startIso) =>
           ~OutsideWindow(call[p].result.startIso, call[p].startedAt)
      /\ ~invalidGenericTournament(call[p].result.tournament)

\* C5: a web fallback result whose source host is outside the allow-list of
\* trusted domains is discarded: neither its tournament nor its start time
\* is returned.
UntrustedSourceDiscarded ==
  \A p \in Procs :
    (Returned(p) /\ call[p].origin.strategy = "C") =>
      HostAllowed(call[p].origin.sourceUrl)

\* C6: the temporal validator keeps a startIso at exactly now - 10 minutes and
\* nulls one at now - 11 minutes, keeps one at now + 3 days - 1 second and
\* nulls one at now + 3 days + 1 second, and nulls an unparseable one.
TemporalBoundaries ==
  vWhich # "none" =>
    /\ vIn.startIso = Iso(vNow - GraceMs) => vOut.startIso = vIn.startIso
    /\ vIn.startIso = Iso(vNow - ElevenMinutesMs) => vOut.startIso = NoIso
    /\ vIn.startIso = Iso(vNow + HorizonMs - 1000) => vOut.startIso = vIn.startIso
    /\ vIn.startIso = Iso(vNow + HorizonMs + 1000) => vOut.startIso = NoIso
    /\ (vIn.startIso.kind = "text" /\ vIn.startIso.text # "") =>
         vOut.startIso = NoIso

\* C6, reached: a validator was given a startIso at exactly now - 10 minutes
\* and returned it.
TemporalBoundaryKept ==
  /\ vWhich = "fixJson"
  /\ vIn.startIso = Iso(vNow - GraceMs)
  /\ vOut.startIso = Iso(vNow - GraceMs)

\* C7: the tournament validator nulls the tournament "ATP Tour" and keeps
\* the tournament "Swiss Indoors Basel (ATP 500)".
GenericTournamentNulled ==
  vWhich \in {"fixJson", "enrichViaWeb"} =>
    /\ vIn.tournament = "ATP Tour" => vOut.tournament = NULL
    /\ vIn.tournament = "Swiss Indoors Basel (ATP 500)" =>
         vOut.tournament = vIn.tournament

\* C8: resolving "A vs B" and then "B vs A" against the same search and
\* fixture data, with no upstream failure and no web fallback, yields the
\* same found / not-found outcome, tournament and start timestamp.
SymmetricUnderNameOrder ==
  \A p \in Procs \ {1} :
    ( /\ Returned(p) /\ Returned(p - 1)
      /\ Len(splitSides(call[p].partido)) = 2
      /\ splitSides(call[p].partido) = Reversed(splitSides(call[p - 1].partido))
      /\ call[p].failed = 0 /\ call[p - 1].failed = 0
      /\ call[p].calls.web = 0 /\ call[p - 1].calls.web = 0 ) =>
      call[p].result = call[p - 1].result

\* C9: when Strategy A and Strategy B produce no fixture, for whatever
\* reason, the web fallback is attempted before not-found is returned.
FallbackAttemptedBeforeNotFound ==
  \A p \in Procs :
    ( /\ Returned(p)
      /\ Len(splitSides(call[p].partido)) >= 2
      /\ ~call[p].result.found ) =>
      call[p].calls.web >= 1

\* C10: after the failure of an upstream call (search, fixture lookup or
\* fallback), enrichGenericSelection still returns a result or null: the
\* failure never leaves it as an error.
UpstreamFailureContained ==
  \A p \in Procs :
    (call[p].failed > 0 /\ call[p].pc \in {"done", "crashed"}) =>
      call[p].outcome = "returned"

\* The match texts that split into at least two sides.
TwoSided == {t \in Inputs : Len(splitSides(t)) >= 2}

\* Every query of an attempt: the combined queries and the variants of each side.
AllQueries(raw) ==
  LET l == sideVars(splitSides(raw)[1])
      r == sideVars(splitSides(raw)[2])
  IN  combineQueries(l, r) \o l \o r

\* Whether an index of the given mode and section has no candidate for any
\* query of the attempt, for each match text of two sides.
ExhaustedTable ==
  [mode \in SearchModes |-> [section \in Sections |->
     [raw \in TwoSided |->
        \A i \in 1..Len(AllQueries(raw)) :
          topTennisCandidates(
            searchAll([QuietWorld EXCEPT !.mode = mode, !.section = section],
                      AllQueries(raw)[i])) = <<>>]]]

\* The search service has no candidate for any query of the attempt.
SearchExhausted(c) == ExhaustedTable[world.mode][world.section][c.partido]

\* C11: when the search returns no candidate for every query and variant, no
\* fixture lookup is issued at any point of the attempt and the resolution
\* returns not-found (null tournament, null startIso).
NoCandidatesNoLookup ==
  \A p \in Procs :
    ( /\ call[p].pc \notin {"idle", "off"}
      /\ call[p].partido \in TwoSided
      /\ SearchExhausted(call[p]) ) =>
      /\ call[p].calls.lookup = 0
      /\ Returned(p) => call[p].result = NotFound

\* C11, reached: the phantom match returned not-found after its 4 combined
\* queries and 2 + 2 variants were searched, with no lookup.
PhantomMatchNotFound ==
  /\ Returned(1)
  /\ call[1].partido = PhantomMatch
  /\ SearchExhausted(call[1])
  /\ call[1].calls = [search |-> 8, lookup |-> 0, web |-> 0]
  /\ call[1].result = NotFound

\* Some candidate the search returns for a variant of vs has ev among its fixtures.
ReachableFrom(vs, ev) ==
  \E i \in 1..Len(vs) :
    LET found == topTennisCandidates(searchAll(world, vs[i]))
    IN  \E j \in 1..Len(found) :
          \E n \in 1..Len(nextEventsForPlayer(world, found[j].id)) :
            nextEventsForPlayer(world, found[j].id)[n] = ev

\* ev is the one fixture of the fixture service that names both sides.
OnlyFixtureOfBoth(ev, leftVars, rightVars) ==
  \A e \in EntityIds : \A n \in 1..Len(world.events[e]) :
    bothSides(world.events[e][n], leftVars, rightVars) => world.events[e][n] = ev

\* The scenario of the Paris Masters fixture for the invocation c.
ParisMastersScenario(c) ==
  /\ c.partido = SinnerCerundolo
  /\ c.failed = 0
  /\ ReachableFrom(LeftOf(c), EvSingles)
  /\ ReachableFrom(RightOf(c), EvSingles)
  /\ OnlyFixtureOfBoth(EvSingles, LeftOf(c), RightOf(c))

UnsplittableNotFoundNoCall ==
  \A p \in Procs :
    (call[p].pc \notin {"idle", "off"} /\ call[p].partido \notin TwoSided) =>
      /\ Returned(p)
      /\ call[p].result = NotFound
      /\ call[p].calls = [search |-> 0, lookup |-> 0, web |-> 0]

\* C13, reached: "Sinner vs ", whose second side is empty, returned not-found
\* without any call.
OneSidedTextReturned ==
  /\ Returned(1)
  /\ call[1].partido = "Sinner vs "
  /\ Len(splitSides(call[1].partido)) = 1
  /\ call[1].result = NotFound
  /\ call[1].calls = [search |-> 0, lookup |-> 0, web |-> 0]

\* The distinct variants of a variant list.
VariantSet(vs) == {vs[i] : i \in 1..Len(vs)}

\* C14: for every non-empty side, expandName followed by
\* addDiacriticAlternatives yields a variant set that is not empty and holds
\* between 1 and 3 variants.
OneToThreeVariants ==
  vWhich = "sideVars" =>
    /\ vOut # <<>>
    /\ Cardinality(VariantSet(vOut)) \in 1..3

\* C15: a match text whose participants are separated by a dash (-, U+2013,
\* U+2014) is split into the same sides as the text written with "vs".
DashSplitsLikeVs ==
  vWhich = "splitSides" =>
    vOut = splitSides(vIn.left \o " vs " \o vIn.right)


\* C16: in every /parse-rows variant an enrichment that gives no result,
\* because nothing was found or because its upstream call failed, never fails
\* the request: no 500 and no crash, the selection is stored with the
\* tournament and the time it had, and every selection of the slip gets its
\* row.
UnresolvedEnrichmentKeepsRequest ==
  /\ slip.status # 500
  /\ slip.pc # "crashed"
  /\ slip.pc = "done" => Len(slip.rows) = Len(slip.selections)
  /\ \A n \in DOMAIN slip.rows :
       slip.rows[n].unresolved =>
         /\ slip.rows[n].torneo = slip.selections[n].torneo
         /\ slip.rows[n].fecha_hora_iso = slip.selections[n].fecha_hora_iso

\* an invocation awaits an external call
Awaiting(p) == TimedPending(p) \/ call[p].pc = "C_fetch"

\* C17: every external call of a resolution attempt (search, fixture lookup,
\* fallback service) is under a timeout that aborts it, so an attempt that
\* awaits a call eventually returns even if the upstream never answers.
AttemptEventuallyReturns ==
  \A p \in Procs : Awaiting(p) ~> (call[p].pc \in {"done", "crashed"})

\* the lookups of the fan-out that have not settled
StillPending(c) ==
  {<<side, i>> \in {"left", "right"} \X (1..BCandCap) :
     /\ i <= Len(SideLists(c, side))
     /\ SideLists(c, side)[i].status = "pending"}

\* the fan-out of an invocation: every lookup started, a rejected one without
\* events, and no rejection that ends the invocation
FanOutKept(c) ==
  /\ c.pc = "B_fan" =>
        /\ Len(c.leftLists) = Len(c.leftCands)
        /\ Len(c.rightLists) = Len(c.rightCands)
  /\ \A side \in {"left", "right"} :
        \A i \in 1..Len(SideLists(c, side)) :
          SideLists(c, side)[i].status = "rejected" =>
            SideLists(c, side)[i].value = <<>>
  /\ c.outcome # "unhandled"

\* the invocation leaves the fan-out only with every lookup settled
JoinsWhenAllSettled(p) ==
  (call[p].pc = "B_fan" /\ call'[p].pc # "B_fan") => StillPending(call[p]) = {}

\* C18: the lookups of Strategy B are started together, one per candidate of
\* each side; the intersection is computed once every one of them has
\* settled; a lookup that failed contributes no event and does not end the
\* invocation or the lookups still pending beside it.
FailedLookupSparesSiblings ==
  /\ [](\A p \in Procs : FanOutKept(call[p]))
  /\ [][\A p \in Procs : JoinsWhenAllSettled(p)]_vars

\* One invocation run by itself with every upstream call answering: to its
\* return, or to the fetch of the web fallback.
RECURSIVE Alone(_, _)
Alone(c, w) ==
  CASE c.pc = "A_search" ->
         LET cands == topTennisCandidates(searchAll(w, Combos(c)[c.k]))
             top   == Take(cands, CandCap)
             ids   == {top[i].id : i \in 1..Len(top)}
         IN  IF top = <<>>
               THEN Alone(ScanCombo(c), w)
               ELSE Alone(ScanCombo([c EXCEPT
                            !.cands = cands, !.ci = Len(top),
                            !.calls.lookup = @ + Len(top),
                            !.eventsById =
                               [j \in ids |-> nextEventsForPlayer(w, j)]]), w)
    [] c.pc = "B_search" ->
         LET list == topTennisCandidates(searchAll(w, SideVars(c)[c.vi]))
         IN  Alone(IF list # <<>> THEN SideDone(c, Take(list, BCandCap))
                                  ELSE NextVariant(c), w)
    [] c.pc = "B_fan" ->
         Alone(Intersect([c EXCEPT
                 !.leftLists = [i \in 1..Len(c.leftCands) |->
                    [status |-> "fulfilled",
                     value |-> nextEventsForPlayer(w, c.leftCands[i].id)]],
                 !.rightLists = [i \in 1..Len(c.rightCands) |->
                    [status |-> "fulfilled",
                     value |-> nextEventsForPlayer(w, c.rightCands[i].id)]]]), w)
    [] OTHER -> c

AloneTable ==
  [w \in ConcurrentWorlds |->
     [raw \in ConcurrentInputs |-> Alone(Enter(Idle, raw, NowMs), w)]]

\* what the invocation returns when it runs alone
SameAsAlone(c, w) ==
  LET a == AloneTable[w][c.partido]
  IN  IF a.pc = "done" THEN c = a
      ELSE \E data \in WebAnswers : c = AfterWeb(a, data)

\* C19: two invocations in flight at once share nothing but the cache: under
\* any interleaving of their upstream calls each one returns, and returns
\* what it returns when it runs alone against the same upstream answers.
ConcurrentSameAsAlone ==
  \A p \in Procs :
    /\ call[p].outcome # "exited"
    /\ (Returned(p) /\ call[p].failed = 0) => SameAsAlone(call[p], world)

\* One combination of Strategy A by itself, its calls answering: the lookups
\* it makes and whether its scan finds a fixture of both sides.
ComboOutcome(w, l, r, q) ==
  LET top == Take(topTennisCandidates(searchAll(w, q)), CandCap)
      ids == {top[i].id : i \in 1..Len(top)}
      evs == ValuesById([j \in ids |-> nextEventsForPlayer(w, j)])
  IN  [lookups |-> Len(top), match |-> firstBoth(evs, l, r) # 0]

StrategyATable ==
  [w \in Worlds |-> [raw \in TwoSided |->
     LET l  == sideVars(splitSides(raw)[1])
         r  == sideVars(splitSides(raw)[2])
         qs == Take(combineQueries(l, r), ComboCap)
     IN  [k \in 1..Len(qs) |-> ComboOutcome(w, l, r, qs[k])]]]

\* the first combination whose scan finds a fixture, 0 when none does
FirstMatch(t) ==
  IF \E k \in 1..Len(t) : t[k].match
    THEN CHOOSE k \in 1..Len(t) :
           t[k].match /\ \A j \in 1..(k - 1) : ~t[j].match
    ELSE 0

\* the lookups of the combinations 1..k
LookupsUpTo(t, k) ==
  LET sum[i \in 0..k] == IF i = 0 THEN 0 ELSE sum[i - 1] + t[i].lookups
  IN  sum[k]

\* C20: Strategy A takes its combinations strictly one after another: when
\* the search of combination k is issued, the searches of 1..k-1 and all
\* their lookups have been issued and have completed and nothing else is in
\* flight; the lookups of a combination go one at a time; and once the scan
\* of a combination finds a fixture, no call of a later combination is
\* issued.
StrategyAStrictlySequential ==
  \A p \in Procs :
    LET c == call[p] IN
      /\ c.pc \in {"A_search", "A_lookup"} =>
            /\ c.calls.search = c.k
            /\ c.calls.web = 0
            /\ c.failed = 0 =>
                  LET t == StrategyATable[world][c.partido] IN
                    /\ FirstMatch(t) \in {0} \cup (c.k..Len(t))
                    /\ c.calls.lookup = LookupsUpTo(t, c.k - 1)
                          + (IF c.pc = "A_lookup" THEN c.ci ELSE 0)
      /\ (Returned(p) /\ c.origin.strategy = "A") =>
            LET t == StrategyATable[world][c.partido] IN
              /\ c.calls.search \in 1..Len(t)
              /\ t[c.calls.search].match
              /\ Cardinality({j \in 1..(c.calls.search - 1) : t[j].match})
                    <= c.failed
              /\ c.calls.lookup <= LookupsUpTo(t, c.calls.search)
              /\ c.calls.web = 0
              /\ c.failed = 0 =>
                    /\ c.calls.search = FirstMatch(t)
                    /\ c.calls.lookup = LookupsUpTo(t, FirstMatch(t))

\* Strategy A returns the fixture found by a combination, after two or more
\* lookups, while combinations remain untried.
MatchEndsStrategyA ==
  \E p \in Procs :
    /\ Returned(p)
    /\ call[p].origin.strategy = "A"
    /\ call[p].failed = 0
    /\ call[p].calls.lookup >= 2
    /\ call[p].calls.search < Len(StrategyATable[world][call[p].partido])
(***************************************************************************)
(* C21: the external calls of an invocation stay within fixed caps         *)
(* whatever the input: Strategy A issues at most 6 searches and looks up   *)
(* at most 3 candidates per combination, Strategy B looks up at most 3     *)
(* candidates per side.                                                    *)
(***************************************************************************)
InStrategyA(c) == c.pc \in {"A_search", "A_lookup"}

CallCapsKept ==
  \A p \in Procs :
    LET c == call[p]
    IN  /\ InStrategyA(c) =>
             /\ c.k <= ComboCap
             /\ c.calls.search <= ComboCap
             /\ c.ci <= CandCap
             /\ c.calls.lookup <= CandCap * (c.k - 1) + c.ci
        /\ c.origin.strategy = "A" => c.calls.search <= ComboCap
        /\ Len(c.leftCands) <= BCandCap /\ Len(c.rightCands) <= BCandCap
        /\ Len(c.leftLists) <= BCandCap /\ Len(c.rightLists) <= BCandCap
        /\ c.calls.lookup <= ComboCap * CandCap + 2 * BCandCap
        /\ c.calls.web <= 1

\* Both caps bite: more combinations than 6 and more candidates than 3 were
\* there, and the invocation made 6 * 3 + 3 + 3 lookups.
CapsReached ==
  \E p \in Procs :
    /\ call[p].pc = "B_fan"
    /\ Len(call[p].combined) > ComboCap
    /\ Len(topTennisCandidates(searchAll(world, call[p].combined[1]))) > CandCap
    /\ call[p].calls.lookup = ComboCap * CandCap + 2 * BCandCap

(***************************************************************************)
(* C22: within a combination of Strategy A the fixture returned is the     *)
(* first that names both sides in encounter order: the candidates in the   *)
(* order the search returned them, the fixtures of each in list order.     *)
(***************************************************************************)
\* The fixtures of the candidates, candidate after candidate in search order.
RECURSIVE EncounterOrder(_, _)
EncounterOrder(w, top) ==
  IF top = <<>> THEN <<>>
  ELSE nextEventsForPlayer(w, Head(top).id) \o EncounterOrder(w, Tail(top))

FirstInEncounterOrderWins ==
  [][\A p \in Procs :
       (call[p].pc = "A_lookup" /\ call'[p].origin.strategy = "A") =>
         LET c   == call[p]
             evs == EncounterOrder(world, Take(c.cands, CandCap))
         IN  call'[p].origin.ev = evs[firstBoth(evs, c.leftVars, c.rightVars)]]_vars

(***************************************************************************)
(* C23: in Strategy A a failed fixture lookup counts as "no fixtures" for  *)
(* its candidate only: the combination goes on with its other candidates   *)
(* and the fixtures already retrieved are scanned.                         *)
(***************************************************************************)
\* The lookup of candidate c.ci taken as an empty fixture list.
LookupAsNoFixtures(c) ==
  LET top == Take(c.cands, CandCap)
      id  == top[c.ci].id
      c1  == [c EXCEPT !.eventsById =
                [j \in DOMAIN c.eventsById \cup {id} |->
                   IF j = id THEN <<>> ELSE c.eventsById[j]]]
  IN  IF c.ci < Len(top)
        THEN IssueLookup([c1 EXCEPT !.ci = c.ci + 1])
        ELSE ScanCombo(c1)

FailedLookupIsNoFixtures ==
  [][\A p \in Procs :
       (call[p].pc = "A_lookup" /\ call'[p].failed = call[p].failed + 1) =>
         call'[p] = Failed(LookupAsNoFixtures(call[p]))]_vars

(***************************************************************************)
(* C24: the strategies run in the order A, B, C and stop at the first that *)
(* yields a fixture: Strategy B starts only once every combination of      *)
(* Strategy A was tried without a match, the fallback only once Strategy B *)
(* found no collision, and a strategy that returns leaves no call of a     *)
(* later strategy issued.                                                  *)
(***************************************************************************)
StrategyOf(pc) ==
  CASE pc \in {"A_search", "A_lookup"} -> "A"
    [] pc \in {"B_search", "B_fan"}    -> "B"
    [] pc = "C_fetch"                  -> "C"
    [] OTHER                           -> "none"

\* The combinations Strategy A has for a match text.
CombosOfText(raw) ==
  LET sides == splitSides(raw)
  IN  IF Len(sides) < 2 THEN <<>>
      ELSE Take(combineQueries(sideVars(sides[1]), sideVars(sides[2])), ComboCap)

CombosTable == [raw \in Inputs |-> Len(CombosOfText(raw))]

StrategyStep(p) ==
  LET c == call[p]
      d == call'[p]
      a == StrategyOf(c.pc)
      b == StrategyOf(d.pc)
  IN  /\ (b = "A" /\ a # "A") => c.pc = "idle"
      /\ (b = "B" /\ a # "B") =>
           /\ a = "A"
           /\ c.k = Len(Combos(c))
           /\ (c.pc = "A_lookup" /\ d.failed = c.failed) =>
                LET evs == EncounterOrder(world, Take(c.cands, CandCap))
                IN  firstBoth(evs, c.leftVars, c.rightVars) = 0
      /\ (b = "C" /\ a # "C") =>
           /\ c.pc = "B_fan"
           /\ AllSettled(c.leftLists) /\ AllSettled(c.rightLists)
           /\ firstCollision(FulfilledEvents(c.leftLists),
                             FulfilledEvents(c.rightLists)) = 0
           /\ d.calls.web = 1
      /\ d.origin.strategy # c.origin.strategy =>
           /\ d.pc = "done"
           /\ d.origin.strategy = a
           /\ d.calls = c.calls

StrategiesInOrder ==
  /\ [](\A p \in Procs :
          LET c == call[p]
          IN  /\ StrategyOf(c.pc) \in {"A", "B"} => c.calls.web = 0
              /\ c.origin.strategy \in {"A", "B"} => c.calls.web = 0
              /\ c.origin.strategy = "A" =>
                   /\ c.calls.search <= CombosTable[c.partido]
                   /\ c.calls.lookup <= CandCap * c.calls.search)
  /\ [][\A p \in Procs : StrategyStep(p)]_vars

\* Strategy B returns a fixture after Strategy A tried its combinations, and
\* an invocation reaches the fallback after both.
LaterStrategyAfterEarlier ==
  \E p \in Procs :
    /\ call[p].pc = "done"
    /\ call[p].origin.strategy = "B"
    /\ call[p].failed = 0
    /\ call[p].calls.search >= CombosTable[call[p].partido] + 2

(***************************************************************************)
(* C25: an answer of the web fallback is accepted as a resolution only if  *)
(* it carries a concrete kickoff time; one with a tournament and no        *)
(* startIso is returned as not found.                                      *)
(***************************************************************************)
FallbackNeedsKickoff ==
  \A p \in Procs :
    (Returned(p) /\ call[p].origin.strategy = "C") =>
      /\ call[p].result.found
      /\ TruthyIso(call[p].result.startIso)

(***************************************************************************)
(* C26: every name variant produced for a side is a non-empty string, so   *)
(* that no variant is contained in every fixture name.                     *)
(***************************************************************************)
EveryVariantNonEmpty ==
  vWhich \in {"sideVars", "expandName"} =>
    \A i \in 1..Len(vOut) :
      /\ vOut[i] # ""
      /\ ~includes(normalizePlain("Ram R / Salisbury J"), normalizePlain(vOut[i]))

(***************************************************************************)
(* C27: enrichViaOpenAI makes at most two model calls, the second only     *)
(* when the validated first answer lacks its tournament or its startIso,   *)
(* and what it returns has a tournament (a startIso) whenever the          *)
(* validated first answer had one.                                         *)
(***************************************************************************)
RetryKeepsValidFields ==
  vWhich = "returned" =>
    /\ vIn.calls \in 1..2
    /\ vIn.calls = 2 => LacksField(vIn.first)
    /\ Truthy(vIn.first.tournament) => vOut.tournament # NULL
    /\ TruthyIso(vIn.first.startIso) => vOut.startIso # NoIso

(***************************************************************************)
(* C28: every source kept in the response of /check-result has a URL whose *)
(* host is one of the domains of pickDomains(sport) or a subdomain of one; *)
(* the other sources are dropped, and at most 3 are kept.                  *)
(***************************************************************************)
HostInDomains(host, domains) ==
  \E i \in 1..Len(domains) :
    \/ host = domains[i]
    \/ endsWith(host, "." \o domains[i])

OnlyAllowListedSourcesKept ==
  vWhich = "check-result" =>
    /\ Len(vOut) <= 3
    /\ \A i \in 1..Len(vOut) :
         /\ hostname(vOut[i].url) # NULL
         /\ HostInDomains(hostname(vOut[i].url), pickDomains(vIn.sport))

(***************************************************************************)
(* C29: no row of bet_selections has both start_time_utc and               *)
(* start_time_text set (a non-empty text), whatever inserts and updates    *)
(* were made.                                                              *)
(***************************************************************************)
UtcOrTextNotBoth ==
  \A i \in 1..Len(vOut) :
    ~(vOut[i].start_time_utc # NoIso /\ Truthy(vOut[i].start_time_text))

(***************************************************************************)
(* C30: in /parse-rows the enrichment only fills what is missing: a        *)
(* tournament or a start time the ticket gave is stored as it was, and the *)
(* second enrichment source leaves what the first one filled.              *)
(***************************************************************************)
\* A value that is there is the value kept.
KeptTorneo(before, after) == Truthy(before) => after = before
KeptIso(before, after)    == TruthyIso(before) => after = before

EnrichmentOnlyFillsMissing ==
  /\ [](/\ \A n \in DOMAIN slip.rows :
             /\ KeptTorneo(slip.selections[n].torneo, slip.rows[n].torneo)
             /\ KeptIso(slip.selections[n].fecha_hora_iso,
                        slip.rows[n].fecha_hora_iso)
        /\ slip.pc = "fallback" =>
             /\ KeptTorneo(slip.selections[slip.i].torneo, slip.torneo)
             /\ KeptIso(slip.selections[slip.i].fecha_hora_iso,
                        slip.fecha_hora_iso))
  /\ [][(slip.pc = "fallback" /\ Len(slip'.rows) > Len(slip.rows)) =>
          /\ KeptTorneo(slip.torneo, slip'.rows[slip.i].torneo)
          /\ KeptIso(slip.fecha_hora_iso, slip'.rows[slip.i].fecha_hora_iso)]_vars

\* The ticket's tournament is stored next to a start time that came from an
\* enrichment answer naming another tournament.
TicketTournamentKept ==
  \E n \in DOMAIN slip.rows :
    /\ slip.selections[n].torneo = "Roland Garros"
    /\ slip.rows[n].torneo = "Roland Garros"
    /\ TruthyIso(slip.rows[n].fecha_hora_iso)

=============================================================================
